---- MODULE Spec2Model ----
(***************************************************************************)
(* Model of the composite (mountable) filesystem of worldiety/vfs:         *)
(* the Path helpers, the virtual mount tree and MountableFileSystem.       *)
(* Strings are sequences of one-character strings, so that splitting,      *)
(* joining and prefix trimming are computed as the Go code computes them.  *)
(***************************************************************************)
EXTENDS Integers, Sequences, FiniteSets, TLC

VARIABLES root, lastHandle, handles, last, issued, removedFirst,
          held, mounting, threads, matchers, joined, cancelable

vars == <<root, lastHandle, handles, last, issued, removedFirst,
          held, mounting, threads, matchers, joined, cancelable>>

\* the context a client holds, the Mount and the AddListener calls in progress
\* on other goroutines, the matchers of a Router, a joined result set and a
\* DefaultCancelable
others == <<held, mounting, threads, matchers, joined, cancelable>>

----------------------------------------------------------------------------
(* Bounds of the model *)

\* longest path (in segments) handed to an operation
MaxDepth == 2

\* largest number of entries (directories and mounts) the tree may grow to
MaxEntries == 3

\* cap on the handle counter
MaxHandles == 2

\* most listeners registered while the backends fire events
MaxEventListeners == 1

\* most patterns registered with a Router
MaxMatchers == 3

\* most result sets joined into one, and most rows of one of them
MaxResultSets == 2

MaxRows == 3

\* most calls of Add and Cancel made on a DefaultCancelable
MaxCalls == 4

\* longest chain of errors, and most calls of the closure in one ForEachErr
MaxChain == 3

MaxVisits == 5

----------------------------------------------------------------------------
(* Strings *)

Slash == "/"

Space == " "

EmptyStr == <<>>

\* strings.HasPrefix
HasPrefix(s, prefix) ==
    /\ Len(prefix) <= Len(s)
    /\ SubSeq(s, 1, Len(prefix)) = prefix

\* strings.TrimPrefix
StringsTrimPrefix(s, prefix) ==
    IF HasPrefix(s, prefix) THEN SubSeq(s, Len(prefix) + 1, Len(s)) ELSE s

RECURSIVE TrimLeft(_)
TrimLeft(s) ==
    IF s # <<>> /\ Head(s) = Space THEN TrimLeft(Tail(s)) ELSE s

RECURSIVE TrimRight(_)
TrimRight(s) ==
    IF s # <<>> /\ s[Len(s)] = Space THEN TrimRight(SubSeq(s, 1, Len(s) - 1)) ELSE s

\* strings.TrimSpace
TrimSpace(s) == TrimRight(TrimLeft(s))

\* strings.Split(s, "/"): cur is the piece being read, acc the pieces read
RECURSIVE SplitAcc(_, _, _)
SplitAcc(s, cur, acc) ==
    IF s = <<>> THEN Append(acc, cur)
    ELSE IF Head(s) = Slash THEN SplitAcc(Tail(s), <<>>, Append(acc, cur))
    ELSE SplitAcc(Tail(s), Append(cur, Head(s)), acc)

Split(s) == SplitAcc(s, <<>>, <<>>)

\* strings.Join(names, "/")
RECURSIVE Join(_)
Join(names) ==
    IF names = <<>> THEN <<>>
    ELSE IF Len(names) = 1 THEN names[1]
    ELSE names[1] \o <<Slash>> \o Join(Tail(names))

----------------------------------------------------------------------------
(* Path *)

RECURSIVE Cleaned(_)
Cleaned(pieces) ==
    IF pieces = <<>> THEN <<>>
    ELSE LET str == TrimSpace(Head(pieces))
         IN IF Len(str) > 0 THEN <<str>> \o Cleaned(Tail(pieces))
            ELSE Cleaned(Tail(pieces))

\* Path.Names
Names(p) == Cleaned(Split(p))

\* Path.NameCount
NameCount(p) == Len(Names(p))

\* Path.String
String(p) == <<Slash>> \o Join(Names(p))

\* Path.Name: the element at index len(tmp) of the names, which is one past
\* the last element
Name(p) ==
    LET tmp == Names(p)
        at == Len(tmp) + 1
    IN IF Len(tmp) > 0
       THEN IF at \in DOMAIN tmp THEN [val |-> tmp[at], panicked |-> FALSE]
            ELSE [val |-> EmptyStr, panicked |-> TRUE]
       ELSE [val |-> EmptyStr, panicked |-> FALSE]

\* Path.Parent that keeps the last name
Parent_whole(p) == Join(Names(p))

\* Path.Parent: the names but the last, joined without a leading slash
Parent(p) ==
    LET tmp == Names(p)
    IN IF Len(tmp) > 0 THEN Join(SubSeq(tmp, 1, Len(tmp) - 1)) ELSE EmptyStr

\* Path.Child
Child(p, name) ==
    IF HasPrefix(name, <<Slash>>) THEN String(p) \o name
    ELSE String(p) \o <<Slash>> \o name

\* Path.TrimPrefix that trims the string as given instead of its canonical form
TrimPrefix_raw(p, prefix) == <<Slash>> \o StringsTrimPrefix(p, prefix)

\* Path.TrimPrefix that trims nothing
TrimPrefix_nothing(p, prefix) == <<Slash>> \o String(p)

\* Path.TrimPrefix
TrimPrefix(p, prefix) == <<Slash>> \o StringsTrimPrefix(String(p), String(prefix))

\* ConcatPaths that joins the strings as they are given
ConcatPaths_raw(p, q) == p \o q

\* ConcatPaths of two paths
ConcatPaths(p, q) == <<Slash>> \o Join(Names(p) \o Names(q))

\* Path.Add: the path followed by the other one
Add(p, other) == ConcatPaths(p, other)

----------------------------------------------------------------------------
(* virtualDir: a sequence of namedEntry, each holding a virtualDir or a    *)
(* FileSystem                                                              *)

NoFS == "nil"

FileSystems == {"X", "Y"}

FSData(fs) == [kind |-> "fs", fs |-> fs, children |-> <<>>]

DirData(children) == [kind |-> "dir", fs |-> NoFS, children |-> children]

namedEntry(name, data) == [name |-> name, data |-> data]

\* index of the first child called name, 0 when there is none
ChildIndex(dir, name) ==
    IF \E i \in 1..Len(dir) : dir[i].name = name
    THEN CHOOSE i \in 1..Len(dir) :
            /\ dir[i].name = name
            /\ \A j \in 1..(i - 1) : dir[j].name # name
    ELSE 0

\* ChildByName that finds no child
HasChild_never(dir, name) == FALSE

\* virtualDir.ChildByName
HasChild(dir, name) == ChildIndex(dir, name) # 0

ChildByName(dir, name) == dir[ChildIndex(dir, name)]

\* virtualDir.RemoveChild that removes nothing
RemoveChild_keep(dir, name) == dir

\* virtualDir.RemoveChild
RemoveChild(dir, name) ==
    LET index == ChildIndex(dir, name)
    IN IF index = 0 THEN dir
       ELSE SubSeq(dir, 1, index - 1) \o SubSeq(dir, index + 1, Len(dir))

----------------------------------------------------------------------------
(* Errors: a nil error, the errors MountableFileSystem creates, and the    *)
(* error a backend may answer with                                         *)

EOK == 0

ENOENT == 2

EINVAL == 22

ENOSYS == 38

ENOMP == 253

DefaultError(code, message) == [Code |-> code, Message |-> message]

Nil == DefaultError(EOK, "<nil>")

MountPointNotFound == DefaultError(ENOMP, "mount point not found")

AcrossMountPoints == DefaultError(EINVAL, "cannot operate across mount points")

BackendError == DefaultError(ENOENT, "backend failure")

NoValue == "nil"

BackendValue == "value"

\* what a backend method may answer: a value and no error, or an error
BackendOutcomes ==
    { [val |-> BackendValue, err |-> Nil],
      [val |-> NoValue, err |-> BackendError],
      [val |-> BackendValue, err |-> BackendError] }

\* the answers of the backend methods that return only an error
BackendErrors == {Nil, BackendError}

----------------------------------------------------------------------------
(* MountableFileSystem: the mount tree *)

\* Mount that leaves the new entry alone in its directory
RECURSIVE MountAt_alone(_, _, _)
MountAt_alone(parent, names, provider) ==
    IF Len(names) = 1
    THEN <<namedEntry(names[1], FSData(provider))>>
    ELSE LET name == names[1]
             ensured == IF HasChild(parent, name) THEN parent
                        ELSE Append(parent, namedEntry(name, DirData(<<>>)))
             i == ChildIndex(ensured, name)
             vdir == IF ensured[i].data.kind = "dir" THEN ensured[i].data.children
                     ELSE <<>>
         IN [ensured EXCEPT ![i].data = DirData(MountAt_alone(vdir, Tail(names), provider))]

\* Mount that stops at a backend it meets on the way and leaves it in place
RECURSIVE MountAt_keepBackend(_, _, _)
MountAt_keepBackend(parent, names, provider) ==
    IF Len(names) = 1
    THEN Append(RemoveChild(parent, names[1]), namedEntry(names[1], FSData(provider)))
    ELSE LET name == names[1]
             ensured == IF HasChild(parent, name) THEN parent
                        ELSE Append(parent, namedEntry(name, DirData(<<>>)))
             i == ChildIndex(ensured, name)
         IN IF ensured[i].data.kind = "fs"
            THEN parent
            ELSE [ensured EXCEPT ![i].data =
                      DirData(MountAt_keepBackend(ensured[i].data.children, Tail(names),
                                                  provider))]

RECURSIVE MountAt(_, _, _)
MountAt(parent, names, provider) ==
    IF Len(names) = 1
    THEN Append(RemoveChild(parent, names[1]), namedEntry(names[1], FSData(provider)))
    ELSE LET name == names[1]
             ensured == IF HasChild(parent, name) THEN parent
                        ELSE Append(parent, namedEntry(name, DirData(<<>>)))
             i == ChildIndex(ensured, name)
             vdir == IF ensured[i].data.kind = "dir" THEN ensured[i].data.children
                     ELSE <<>>
         IN [ensured EXCEPT ![i].data = DirData(MountAt(vdir, Tail(names), provider))]

ResolveResult(mountPoint, providerPath, provider, err) ==
    [mountPoint |-> mountPoint, providerPath |-> providerPath,
     provider |-> provider, err |-> err]

RECURSIVE ResolveWalk(_, _, _, _)

\* Resolve that returns the mount point walked so far when it fails
ResolveWalk_partial(parent, names, mountPoint, path) ==
    IF names = <<>> \/ ~HasChild(parent, Head(names))
    THEN ResolveResult(mountPoint, EmptyStr, NoFS, MountPointNotFound)
    ELSE LET child == ChildByName(parent, Head(names))
             mp == String(Child(mountPoint, Head(names)))
         IN IF child.data.kind = "fs"
            THEN ResolveResult(mp, String(TrimPrefix(path, mp)), child.data.fs, Nil)
            ELSE ResolveWalk(child.data.children, Tail(names), mp, path)

ResolveWalk(parent, names, mountPoint, path) ==
    IF names = <<>> \/ ~HasChild(parent, Head(names))
    THEN ResolveResult(EmptyStr, EmptyStr, NoFS, MountPointNotFound)
    ELSE LET child == ChildByName(parent, Head(names))
             mp == String(Child(mountPoint, Head(names)))
         IN IF child.data.kind = "fs"
            THEN ResolveResult(mp, String(TrimPrefix(path, mp)), child.data.fs, Nil)
            ELSE ResolveWalk(child.data.children, Tail(names), mp, path)

\* MountableFileSystem.Resolve on the tree r
ResolveIn(r, path) == ResolveWalk(r, Names(path), EmptyStr, path)

\* MountableFileSystem.Mounted
Mounted(r, path) == ResolveIn(r, path).provider

RECURSIVE EntryCount(_)
EntryCount(dir) ==
    IF dir = <<>> THEN 0
    ELSE 1 + EntryCount(Head(dir).data.children) + EntryCount(Tail(dir))

----------------------------------------------------------------------------
(* The calls a client makes: segment names, raw path strings *)

SegNames == { <<"a">>, <<"a", "b">> }

SegSeqs == UNION { [1..n -> SegNames] : n \in 0..MaxDepth }

\* the canonical spelling of a segment sequence
Canonical(segs) == <<Slash>> \o Join(segs)

\* a spelling without leading slash, with padded segments and empty segments
RECURSIVE Messy(_)
Messy(segs) ==
    IF segs = <<>> THEN <<>>
    ELSE <<Space>> \o Head(segs) \o <<Slash, Slash>> \o Messy(Tail(segs))

RawPaths == { Canonical(s) : s \in SegSeqs } \cup { Messy(s) : s \in SegSeqs }

\* the paths handed to Resolve reach one segment below the deepest mount point
DeepSeqs == UNION { [1..n -> SegNames] : n \in 0..(MaxDepth + 1) }

QueryPaths == { Canonical(s) : s \in DeepSeqs } \cup { Messy(s) : s \in DeepSeqs }

----------------------------------------------------------------------------
(* The record of the last call: its arguments, what it returned and the   *)
(* backend methods it invoked                                              *)

\* one invocation of a backend method: the backend, the method, the arguments
\* and what the backend answered
BackendCall(fs, method, path, newPath, handle, ret) ==
    [fs |-> fs, method |-> method, path |-> path, newPath |-> newPath, handle |-> handle,
     ret |-> ret]

Answer(val, hnd, err) == [val |-> val, hnd |-> hnd, err |-> err]

Missing == [kind |-> "missing", fs |-> NoFS, children |-> <<>>]

\* the payload of the entry that the segments lead to, Missing when there is none
RECURSIVE NodeAt(_, _)
NodeAt(dir, segs) ==
    IF segs = <<>> THEN DirData(dir)
    ELSE IF ~HasChild(dir, Head(segs)) THEN Missing
    ELSE LET child == ChildByName(dir, Head(segs))
         IN IF Len(segs) = 1 THEN child.data
            ELSE IF child.data.kind = "dir" THEN NodeAt(child.data.children, Tail(segs))
            ELSE Missing

\* a context carries no path
NoPath == "none"

\* a context.Context: the path stored under hiddenPath("path") and the backend
\* whose Begin made it
Context(path, tx) == [path |-> path, tx |-> tx]

\* a context no Begin has touched
Background == Context(NoPath, NoFS)

\* no Mount is in progress on another goroutine
NoMount == [pc |-> "none"]

\* the goroutines that call AddListener at the same time
Threads == {1, 2}

\* a goroutine that is in no call
NoThread == [pc |-> "none"]

\* a ResultSet of so many rows; it starts before its first row
resultSet(size) == [size |-> size, pos |-> 0]

\* joinedResultSet{results, 0}; yielded counts the calls of Next that returned
\* true
joinedResultSet(sizes) ==
    [results |-> [i \in 1..Len(sizes) |-> resultSet(sizes[i])], activeIdx |-> 0,
     yielded |-> 0]

\* the goroutines that call a DefaultCancelable, and the children they add
Callers == {1, 2, 3}

Children == {"c1", "c2"}

NoCaller == [pc |-> "none", op |-> "none", child |-> "none", idx |-> 0]

\* a DefaultCancelable: its mutex (0 when free, else the goroutine holding
\* it), its children and its flag, the calls in progress; for every child the
\* number of Add calls that took it (adds) and of invocations of its Cancel
\* (invoked); the number of Cancel calls that went through the children
\* (rounds) and of calls made so far (calls)
NewCancelable ==
    [mutex |-> 0, children |-> <<>>, cancelled |-> 0,
     callers |-> [t \in Callers |-> NoCaller],
     adds |-> [c \in Children |-> 0], invoked |-> [c \in Children |-> 0],
     rounds |-> 0, calls |-> 0]

NoCall ==
    [op |-> "none", path |-> EmptyStr, newPath |-> EmptyStr, fs |-> NoFS, handle |-> -1,
     val |-> NoValue, err |-> Nil, resolved |-> ResolveResult(EmptyStr, EmptyStr, NoFS, Nil),
     retHandle |-> -1, panicked |-> FALSE, replaced |-> Missing, through |-> FALSE,
     again |-> FALSE, name |-> EmptyStr, count |-> -1,
     method |-> "none", isNil |-> FALSE, fields |-> {},
     chain |-> <<>>, at |-> 0, tmp |-> 0, pc |-> "none",
     event |-> "none", ctx |-> Background, calls |-> <<>>]

Init ==
    /\ root = <<>>
    /\ lastHandle = 0
    /\ handles = <<>>
    /\ last = NoCall
    /\ issued = <<>>
    /\ removedFirst = FALSE
    /\ held = Background
    /\ mounting = NoMount
    /\ threads = [t \in Threads |-> NoThread]
    /\ matchers = <<>>
    /\ joined = joinedResultSet(<<>>)
    /\ cancelable = NewCancelable

\* MountableFileSystem.Mount
Mount(mountPoint, provider) ==
    LET names == Names(mountPoint)
    IN /\ IF names = <<>>
          THEN /\ root' = root
               /\ last' = [NoCall EXCEPT !.op = "Mount", !.path = mountPoint,
                                          !.fs = provider, !.panicked = TRUE]
          ELSE /\ root' = MountAt(root, names, provider)
               /\ EntryCount(root') <= MaxEntries
               /\ last' = [NoCall EXCEPT !.op = "Mount", !.path = mountPoint,
                                          !.fs = provider,
                                          !.replaced = NodeAt(root, names),
                                          !.through =
                                              \E k \in 1..(Len(names) - 1) :
                                                  NodeAt(root, SubSeq(names, 1, k)).kind = "fs"]
       /\ UNCHANGED <<lastHandle, handles, issued, removedFirst>>

\* MountableFileSystem.Resolve
Resolve(path) ==
    /\ last' = [NoCall EXCEPT !.op = "Resolve", !.path = path,
                               !.resolved = ResolveIn(root, path),
                               !.err = ResolveIn(root, path).err]
    /\ UNCHANGED <<root, lastHandle, handles, issued, removedFirst>>

\* the tree walk of MountableFileSystem.Disconnect: the tree without the leaf
\* that names leads to, or a panic when a segment before the last one is
\* missing or is not a virtualDir
RECURSIVE DisconnectWalk(_, _)
DisconnectWalk(dir, names) ==
    IF Len(names) = 1
    THEN [panicked |-> FALSE, dir |-> RemoveChild(dir, names[1])]
    ELSE IF ~HasChild(dir, names[1]) \/ ChildByName(dir, names[1]).data.kind # "dir"
    THEN [panicked |-> TRUE, dir |-> dir]
    ELSE LET i == ChildIndex(dir, names[1])
             sub == DisconnectWalk(dir[i].data.children, Tail(names))
         IN IF sub.panicked THEN [panicked |-> TRUE, dir |-> dir]
            ELSE [panicked |-> FALSE, dir |-> [dir EXCEPT ![i].data = DirData(sub.dir)]]

\* MountableFileSystem.Disconnect; berr is what the backend's Disconnect returns
Disconnect(path, berr) ==
    LET r == ResolveIn(root, path)
        walk == DisconnectWalk(root, Names(path))
        call == BackendCall(r.provider, "Disconnect", r.providerPath, EmptyStr, -1,
                            Answer(NoValue, -1, berr))
    IN /\ IF r.err # Nil
          THEN /\ root' = root
               /\ last' = [NoCall EXCEPT !.op = "Disconnect", !.path = path, !.err = r.err]
          ELSE /\ root' = walk.dir
               /\ last' = [NoCall EXCEPT !.op = "Disconnect", !.path = path,
                                          !.err = IF walk.panicked THEN Nil ELSE berr,
                                          !.panicked = walk.panicked,
                                          !.calls = <<call>>]
       /\ UNCHANGED <<lastHandle, handles, issued, removedFirst>>

\* a single-path operation that hands the path as it was given to the backend
Delegate_fullPath(op, path, out) ==
    LET r == ResolveIn(root, path)
    IN /\ last' = IF r.err # Nil
                  THEN [NoCall EXCEPT !.op = op, !.path = path, !.err = r.err]
                  ELSE [NoCall EXCEPT !.op = op, !.path = path,
                                      !.val = out.val, !.err = out.err,
                                      !.calls = <<BackendCall(r.provider, op, path,
                                                              EmptyStr, -1,
                                                              Answer(out.val, -1, out.err))>>]
       /\ UNCHANGED <<root, lastHandle, handles, issued, removedFirst>>

\* the shape shared by the single-path operations: resolve, then hand the
\* residual path to the backend's method of the same name
Delegate(op, path, out) ==
    LET r == ResolveIn(root, path)
    IN /\ last' = IF r.err # Nil
                  THEN [NoCall EXCEPT !.op = op, !.path = path, !.err = r.err]
                  ELSE [NoCall EXCEPT !.op = op, !.path = path,
                                      !.val = out.val, !.err = out.err,
                                      !.calls = <<BackendCall(r.provider, op, r.providerPath,
                                                              EmptyStr, -1,
                                                              Answer(out.val, -1, out.err))>>]
       /\ UNCHANGED <<root, lastHandle, handles, issued, removedFirst>>

ErrorOnly(berr) == [val |-> NoValue, err |-> berr]

Connect(path, out) == Delegate("Connect", path, out)

FireEvent(path, berr) == Delegate("FireEvent", path, ErrorOnly(berr))

Open(path, out) == Delegate("Open", path, out)

Delete(path, berr) == Delegate("Delete", path, ErrorOnly(berr))

ReadAttrs(path, out) == Delegate("ReadAttrs", path, out)

ReadForks(path, out) == Delegate("ReadForks", path, out)

WriteAttrs(path, out) == Delegate("WriteAttrs", path, out)

ReadBucket(path, out) == Delegate("ReadBucket", path, out)

Invoke(endpoint, out) == Delegate("Invoke", endpoint, out)

MkBucket(path, berr) == Delegate("MkBucket", path, ErrorOnly(berr))

\* MountableFileSystem.resolveOldNewPath
resolveOldNewPath(oldPath, newPath) ==
    LET r0 == ResolveIn(root, oldPath)
        r1 == ResolveIn(root, newPath)
        failed(err) == [dp |-> NoFS, oldP |-> EmptyStr, newP |-> EmptyStr, err |-> err]
    IN IF r0.err # Nil THEN failed(r0.err)
       ELSE IF r1.err # Nil THEN failed(r1.err)
       ELSE IF r0.mountPoint # r1.mountPoint THEN failed(AcrossMountPoints)
       ELSE [dp |-> r0.provider,
             oldP |-> String(TrimPrefix(oldPath, r0.mountPoint)),
             newP |-> String(TrimPrefix(newPath, r1.mountPoint)),
             err |-> Nil]

\* the shape shared by the two-path operations
DelegateTwo(op, oldPath, newPath, berr) ==
    LET r == resolveOldNewPath(oldPath, newPath)
    IN /\ last' = IF r.err # Nil
                  THEN [NoCall EXCEPT !.op = op, !.path = oldPath, !.newPath = newPath,
                                      !.err = r.err]
                  ELSE [NoCall EXCEPT !.op = op, !.path = oldPath, !.newPath = newPath,
                                      !.err = berr,
                                      !.calls = <<BackendCall(r.dp, op, r.oldP, r.newP, -1,
                                                              Answer(NoValue, -1, berr))>>]
       /\ UNCHANGED <<root, lastHandle, handles, issued, removedFirst>>

Rename(oldPath, newPath, berr) == DelegateTwo("Rename", oldPath, newPath, berr)

SymLink(oldPath, newPath, berr) == DelegateTwo("SymLink", oldPath, newPath, berr)

HardLink(oldPath, newPath, berr) == DelegateTwo("HardLink", oldPath, newPath, berr)

RefLink(oldPath, newPath, berr) == DelegateTwo("RefLink", oldPath, newPath, berr)

----------------------------------------------------------------------------
(* Listener handles *)

wrappedHandle(handle, fs) == [handle |-> handle, fs |-> fs]

\* the backend-local handles a backend hands out; they overlap with the
\* handles of the composite filesystem
BackendHandles == {1, 2}

\* what the backend's AddListener may answer
ListenerOutcomes ==
    { [hnd |-> h, err |-> Nil] : h \in BackendHandles }
        \cup { [hnd |-> -1, err |-> BackendError] }

\* wrapHandle that does not advance the counter
wrapHandle_noIncrement(fs, handle) ==
    [lastHandle |-> lastHandle,
     handles |-> [h \in DOMAIN handles \cup {lastHandle} |->
                     IF h = lastHandle THEN wrappedHandle(handle, fs) ELSE handles[h]],
     ret |-> lastHandle]

\* MountableFileSystem.wrapHandle: the new counter, the new map and the handle
\* handed out
wrapHandle(fs, handle) ==
    [lastHandle |-> lastHandle + 1,
     handles |-> [h \in DOMAIN handles \cup {lastHandle + 1} |->
                     IF h = lastHandle + 1 THEN wrappedHandle(handle, fs) ELSE handles[h]],
     ret |-> lastHandle + 1]

\* unwrapHandle that falls back to the latest registration
unwrapHandle_latest(handle) ==
    IF handle \in DOMAIN handles THEN handles[handle]
    ELSE IF lastHandle \in DOMAIN handles THEN handles[lastHandle]
    ELSE wrappedHandle(0, NoFS)

\* unwrapHandle that hands back the handle of the composite filesystem in
\* place of the backend's
unwrapHandle_outer(handle) ==
    IF handle \in DOMAIN handles THEN wrappedHandle(handle, handles[handle].fs)
    ELSE wrappedHandle(0, NoFS)

\* MountableFileSystem.unwrapHandle
unwrapHandle(handle) ==
    IF handle \in DOMAIN handles THEN handles[handle] ELSE wrappedHandle(0, NoFS)

\* no listener
NoListener == "nil"

\* the listeners a client registers
Listeners == {"L"}

\* the events a backend fires
Events == {"created", "deleted"}

\* mountpointListener
mountpointListener(prefix, delegate) == [prefix |-> prefix, delegate |-> delegate]

\* one invocation of a client's listener
ListenerCall(listener, path, event, ret) ==
    [fs |-> listener, method |-> "OnEvent", path |-> path, event |-> event, ret |-> ret]

\* MountableFileSystem.AddListener; out is what the backend's AddListener returns
AddListener(path, listener, out) ==
    LET r == ResolveIn(root, path)
        call == BackendCall(r.provider, "AddListener", r.providerPath, r.mountPoint, -1,
                            Answer(NoValue, out.hnd, out.err))
        w == wrapHandle(r.provider, out.hnd)
    IN /\ IF r.err # Nil
          THEN /\ last' = [NoCall EXCEPT !.op = "AddListener", !.path = path,
                                          !.err = r.err]
               /\ UNCHANGED <<lastHandle, handles, issued, removedFirst>>
          ELSE IF out.err # Nil
          THEN /\ last' = [NoCall EXCEPT !.op = "AddListener", !.path = path,
                                          !.retHandle = out.hnd, !.err = out.err,
                                          !.calls = <<call>>]
               /\ UNCHANGED <<lastHandle, handles, issued, removedFirst>>
          ELSE /\ lastHandle < MaxHandles
               /\ lastHandle' = w.lastHandle
               /\ handles' = w.handles
               /\ last' = [NoCall EXCEPT !.op = "AddListener", !.path = path,
                                          !.retHandle = w.ret, !.calls = <<call>>]
               /\ issued' = Append(issued,
                                    [handle |-> w.ret, fs |-> r.provider,
                                     backendHandle |-> out.hnd,
                                     listener |-> mountpointListener(r.mountPoint, listener)])
               /\ UNCHANGED removedFirst
       /\ UNCHANGED root

\* MountableFileSystem.RemoveListener; berr is what the backend's RemoveListener
\* returns
\* the handle is the first one that AddListener returned
IsFirst(handle) == issued # <<>> /\ issued[1].handle = handle

RemoveListener(handle, berr) ==
    LET unwrapped == unwrapHandle(handle)
    IN /\ last' = IF unwrapped.fs # NoFS
                  THEN [NoCall EXCEPT !.op = "RemoveListener", !.handle = handle,
                                      !.err = berr, !.again = (removedFirst /\ IsFirst(handle)),
                                      !.calls = <<BackendCall(unwrapped.fs, "RemoveListener",
                                                              EmptyStr, EmptyStr,
                                                              unwrapped.handle,
                                                              Answer(NoValue, -1, berr))>>]
                  ELSE [NoCall EXCEPT !.op = "RemoveListener", !.handle = handle]
       /\ removedFirst' = (removedFirst \/ IsFirst(handle))
       /\ UNCHANGED <<root, lastHandle, handles, issued>>

WrongContext == DefaultError(ENOMP, "wrong context")

\* MountableFileSystem.Begin; out is what the backend's Begin returns: a
\* context of its own or none, and an error or none
Begin(path, out) ==
    LET r == ResolveIn(root, path)
        call == BackendCall(r.provider, "Begin", r.providerPath, EmptyStr, -1,
                            Answer(out.val, -1, out.err))
    IN /\ IF r.err # Nil
          THEN /\ last' = [NoCall EXCEPT !.op = "Begin", !.path = path, !.err = r.err]
               /\ UNCHANGED held
          ELSE IF out.err # Nil
          THEN /\ last' = [NoCall EXCEPT !.op = "Begin", !.path = path, !.err = out.err,
                                          !.val = out.val, !.calls = <<call>>,
                                          !.ctx = Context(NoPath, r.provider)]
               /\ held' = IF out.val = NoValue THEN held ELSE Context(NoPath, r.provider)
          ELSE /\ last' = [NoCall EXCEPT !.op = "Begin", !.path = path,
                                          !.val = out.val, !.calls = <<call>>,
                                          !.ctx = Context(path, r.provider)]
               /\ held' = Context(path, r.provider)
       /\ UNCHANGED <<root, lastHandle, handles, issued, removedFirst>>

\* Commit and Rollback that look the path of a context without one up as the
\* empty path
Finish_emptyPath(op, ctx, berr) ==
    LET r == ResolveIn(root, IF ctx.path # NoPath THEN ctx.path ELSE EmptyStr)
    IN /\ last' = IF r.err # Nil
                  THEN [NoCall EXCEPT !.op = op, !.ctx = ctx, !.err = r.err]
                  ELSE [NoCall EXCEPT !.op = op, !.ctx = ctx, !.err = berr,
                                      !.calls = <<BackendCall(r.provider, op, EmptyStr,
                                                              EmptyStr, -1,
                                                              Answer(NoValue, -1, berr))>>]
       /\ UNCHANGED <<root, lastHandle, handles, issued, removedFirst, held>>

\* the shape shared by Commit and Rollback: look the path of the context up,
\* resolve it and call the backend's method of the same name
Finish(op, ctx, berr) ==
    LET r == ResolveIn(root, ctx.path)
    IN /\ last' = IF ctx.path = NoPath
                  THEN [NoCall EXCEPT !.op = op, !.ctx = ctx, !.err = WrongContext]
                  ELSE IF r.err # Nil
                  THEN [NoCall EXCEPT !.op = op, !.ctx = ctx, !.err = r.err]
                  ELSE [NoCall EXCEPT !.op = op, !.ctx = ctx, !.err = berr,
                                      !.calls = <<BackendCall(r.provider, op, EmptyStr,
                                                              EmptyStr, -1,
                                                              Answer(NoValue, -1, berr))>>]
       /\ UNCHANGED <<root, lastHandle, handles, issued, removedFirst, held>>

\* MountableFileSystem.Commit
Commit(ctx, berr) == Finish("Commit", ctx, berr)

\* MountableFileSystem.Rollback
Rollback(ctx, berr) == Finish("Rollback", ctx, berr)

\* mountpointListener.OnEvent of the i-th registration, called by its backend
\* with a path of the backend and an event; derr is what the client's
\* listener returns
OnEvent(i, path, event, derr) ==
    LET l == issued[i].listener
        full == String(Add(l.prefix, path))
    IN /\ last' = IF l.delegate # NoListener
                  THEN [NoCall EXCEPT !.op = "OnEvent", !.path = path, !.event = event,
                                      !.handle = issued[i].handle, !.err = derr,
                                      !.calls = <<ListenerCall(l.delegate, full, event,
                                                               Answer(NoValue, -1, derr))>>]
                  ELSE [NoCall EXCEPT !.op = "OnEvent", !.path = path, !.event = event,
                                      !.handle = issued[i].handle]
       /\ UNCHANGED <<root, lastHandle, handles, issued, removedFirst>>

----------------------------------------------------------------------------
(* ReadDir of the path-typed MountableFileSystem, which lists the virtual  *)
(* directories of the mount tree                                           *)

ModeDir == "ModeDir"

ResourceNotFound == DefaultError(ENOENT, "ResourceNotFoundError")

\* asDirEntList with the entries in reverse
asDirEntList_reversed(parent) ==
    [i \in 1..Len(parent) |->
        [name |-> parent[Len(parent) + 1 - i].name, mode |-> ModeDir, size |-> 0]]

\* asDirEntList: one entry for each child
asDirEntList(parent) ==
    [i \in 1..Len(parent) |-> [name |-> parent[i].name, mode |-> ModeDir, size |-> 0]]

\* the walk of ReadDir along the names of a path that resolves to no backend:
\* a name that is no child is a nil dereference
RECURSIVE ReadDirWalk(_, _)
ReadDirWalk(parent, names) ==
    IF ~HasChild(parent, Head(names))
    THEN [panicked |-> TRUE, val |-> NoValue, err |-> Nil]
    ELSE LET child == ChildByName(parent, Head(names))
         IN IF child.data.kind # "dir"
            THEN [panicked |-> FALSE, val |-> NoValue, err |-> ResourceNotFound]
            ELSE IF Len(names) = 1
            THEN [panicked |-> FALSE, val |-> asDirEntList(child.data.children), err |-> Nil]
            ELSE ReadDirWalk(child.data.children, Tail(names))

\* MountableFileSystem.ReadDir; out is what the backend's ReadDir returns
ReadDir(path, out) ==
    LET r == ResolveIn(root, path)
        names == Names(path)
        walk == IF Len(names) = 0
                THEN [panicked |-> FALSE, val |-> asDirEntList(root), err |-> Nil]
                ELSE ReadDirWalk(root, names)
    IN /\ last' = IF r.provider # NoFS
                  THEN [NoCall EXCEPT !.op = "ReadDir", !.path = path,
                                      !.val = out.val, !.err = out.err,
                                      !.calls = <<BackendCall(r.provider, "ReadDir",
                                                              r.providerPath, EmptyStr, -1,
                                                              Answer(out.val, -1, out.err))>>]
                  ELSE [NoCall EXCEPT !.op = "ReadDir", !.path = path, !.val = walk.val,
                                      !.err = walk.err, !.panicked = walk.panicked]
       /\ UNCHANGED <<root, lastHandle, handles, issued, removedFirst>>

----------------------------------------------------------------------------
(* Mount on a second goroutine. Mount takes no lock, so its writes to the  *)
(* tree are single steps between which other goroutines read the tree.     *)

\* the children of the directory the segments lead to
ChildrenAt(dir, segs) == NodeAt(dir, segs).children

\* the tree with the children of the directory that the segments lead to
\* replaced
RECURSIVE ReplaceAt(_, _, _)
ReplaceAt(dir, segs, children) ==
    IF segs = <<>> THEN children
    ELSE LET i == ChildIndex(dir, Head(segs))
         IN [dir EXCEPT ![i].data =
                DirData(ReplaceAt(dir[i].data.children, Tail(segs), children))]

\* Mount, first statements: the names of the mount point are taken
MountStart(mountPoint, provider) ==
    /\ mounting = NoMount
    /\ Names(mountPoint) # <<>>
    /\ mounting' = [pc |-> "walk", names |-> Names(mountPoint), provider |-> provider,
                    k |-> 0, before |-> root]
    /\ UNCHANGED <<root, lastHandle, handles, issued, removedFirst, last>>

\* Mount, one round of the loop: the next directory on the way is created, or
\* put in the place of what is there and is no directory
MountWalk ==
    /\ mounting.pc = "walk"
    /\ mounting.k < Len(mounting.names) - 1
    /\ LET at == SubSeq(mounting.names, 1, mounting.k)
           name == mounting.names[mounting.k + 1]
           parent == ChildrenAt(root, at)
           i == ChildIndex(parent, name)
           ensured == IF i = 0 THEN Append(parent, namedEntry(name, DirData(<<>>)))
                      ELSE IF parent[i].data.kind = "dir" THEN parent
                      ELSE [parent EXCEPT ![i].data = DirData(<<>>)]
       IN root' = ReplaceAt(root, at, ensured)
    /\ mounting' = [mounting EXCEPT !.k = mounting.k + 1]
    /\ UNCHANGED <<lastHandle, handles, issued, removedFirst, last>>

\* Mount, parent.RemoveChild(name)
MountRemove ==
    /\ mounting.pc = "walk"
    /\ mounting.k = Len(mounting.names) - 1
    /\ LET at == SubSeq(mounting.names, 1, mounting.k)
           name == mounting.names[mounting.k + 1]
       IN root' = ReplaceAt(root, at, RemoveChild(ChildrenAt(root, at), name))
    /\ mounting' = [mounting EXCEPT !.pc = "append"]
    /\ UNCHANGED <<lastHandle, handles, issued, removedFirst, last>>

\* Mount, last statement: the entry of the backend is appended
MountAppend ==
    /\ mounting.pc = "append"
    /\ LET at == SubSeq(mounting.names, 1, mounting.k)
           name == mounting.names[mounting.k + 1]
       IN root' = ReplaceAt(root, at, Append(ChildrenAt(root, at),
                                             namedEntry(name, FSData(mounting.provider))))
    /\ mounting' = NoMount
    /\ UNCHANGED <<lastHandle, handles, issued, removedFirst, last>>

----------------------------------------------------------------------------
(* AddListener on several goroutines. wrapHandle takes no lock, so each of *)
(* its reads and writes of lastHandle and handles is a step of its own.    *)

\* the goroutines inside wrapHandle
InWrapHandle == { t \in Threads : threads[t].pc \in {"read", "write", "store", "return"} }

\* AddListener up to the call of wrapHandle: the path resolves and the
\* backend's AddListener answers out, a handle and no error
AddStart(t, path, out) ==
    LET r == ResolveIn(root, path)
    IN /\ threads[t].pc = "none"
       /\ r.err = Nil
       /\ out.err = Nil
       /\ lastHandle + Cardinality(InWrapHandle) < MaxHandles
       /\ threads' = [threads EXCEPT ![t] = [pc |-> "read", fs |-> r.provider,
                                             hnd |-> out.hnd, tmp |-> 0, ret |-> -1]]
       /\ UNCHANGED <<root, lastHandle, handles, issued, removedFirst, last>>

\* wrapHandle, p.lastHandle++: the counter is read
WrapRead(t) ==
    /\ threads[t].pc = "read"
    /\ threads' = [threads EXCEPT ![t].pc = "write", ![t].tmp = lastHandle]
    /\ UNCHANGED <<root, lastHandle, handles, issued, removedFirst, last>>

\* wrapHandle, p.lastHandle++: the counter is written
WrapWrite(t) ==
    /\ threads[t].pc = "write"
    /\ lastHandle' = threads[t].tmp + 1
    /\ threads' = [threads EXCEPT ![t].pc = "store"]
    /\ UNCHANGED <<root, handles, issued, removedFirst, last>>

\* wrapHandle, p.handles[p.lastHandle] = wrappedHandle{handle, fs}
WrapStore(t) ==
    /\ threads[t].pc = "store"
    /\ handles' = [h \in DOMAIN handles \cup {lastHandle} |->
                      IF h = lastHandle THEN wrappedHandle(threads[t].hnd, threads[t].fs)
                      ELSE handles[h]]
    /\ threads' = [threads EXCEPT ![t].pc = "return"]
    /\ UNCHANGED <<root, lastHandle, issued, removedFirst, last>>

\* wrapHandle, return p.lastHandle
WrapReturn(t) ==
    /\ threads[t].pc = "return"
    /\ threads' = [threads EXCEPT ![t].pc = "done", ![t].ret = lastHandle]
    /\ UNCHANGED <<root, lastHandle, handles, issued, removedFirst, last>>

\* the caller takes the handle
Collect(t) ==
    /\ threads[t].pc = "done"
    /\ threads' = [threads EXCEPT ![t] = NoThread]
    /\ UNCHANGED <<root, lastHandle, handles, issued, removedFirst, last>>

----------------------------------------------------------------------------
(* Specifications: one client that makes a call, takes what it returned    *)
(* and makes the next call                                                 *)

\* the handles a client may pass to RemoveListener
Handles == -1..(MaxHandles + 1)

\* no call is waiting to be taken by the client
Idle == last.op = "none"

\* the client takes the result of the last call
Return ==
    /\ ~Idle
    /\ last' = NoCall
    /\ UNCHANGED <<root, lastHandle, handles, issued, removedFirst>>
    /\ UNCHANGED others

MountStep == Idle /\ UNCHANGED others /\ \E m \in RawPaths, fs \in FileSystems : Mount(m, fs)

ResolveStep == Idle /\ UNCHANGED others /\ \E p \in QueryPaths : Resolve(p)

DisconnectStep == Idle /\ UNCHANGED others /\ \E p \in RawPaths, berr \in BackendErrors : Disconnect(p, berr)

ConnectStep == Idle /\ UNCHANGED others /\ \E p \in RawPaths, out \in BackendOutcomes : Connect(p, out)

FireEventStep == Idle /\ UNCHANGED others /\ \E p \in RawPaths, berr \in BackendErrors : FireEvent(p, berr)

OpenStep == Idle /\ UNCHANGED others /\ \E p \in RawPaths, out \in BackendOutcomes : Open(p, out)

DeleteStep == Idle /\ UNCHANGED others /\ \E p \in RawPaths, berr \in BackendErrors : Delete(p, berr)

ReadAttrsStep == Idle /\ UNCHANGED others /\ \E p \in RawPaths, out \in BackendOutcomes : ReadAttrs(p, out)

ReadForksStep == Idle /\ UNCHANGED others /\ \E p \in RawPaths, out \in BackendOutcomes : ReadForks(p, out)

WriteAttrsStep == Idle /\ UNCHANGED others /\ \E p \in RawPaths, out \in BackendOutcomes : WriteAttrs(p, out)

ReadBucketStep == Idle /\ UNCHANGED others /\ \E p \in RawPaths, out \in BackendOutcomes : ReadBucket(p, out)

InvokeStep == Idle /\ UNCHANGED others /\ \E p \in RawPaths, out \in BackendOutcomes : Invoke(p, out)

MkBucketStep == Idle /\ UNCHANGED others /\ \E p \in RawPaths, berr \in BackendErrors : MkBucket(p, berr)

RenameStep ==
    Idle /\ UNCHANGED others /\ \E o \in RawPaths, n \in RawPaths, berr \in BackendErrors : Rename(o, n, berr)

SymLinkStep ==
    Idle /\ UNCHANGED others /\ \E o \in RawPaths, n \in RawPaths, berr \in BackendErrors : SymLink(o, n, berr)

HardLinkStep ==
    Idle /\ UNCHANGED others /\ \E o \in RawPaths, n \in RawPaths, berr \in BackendErrors : HardLink(o, n, berr)

RefLinkStep ==
    Idle /\ UNCHANGED others /\ \E o \in RawPaths, n \in RawPaths, berr \in BackendErrors : RefLink(o, n, berr)

\* the paths listeners are added on reach one segment below the mount points
ListenerPaths == { p \in RawPaths : Len(Names(p)) <= 2 }

AddListenerStep ==
    Idle /\ UNCHANGED others /\ \E p \in ListenerPaths, l \in Listeners, out \in ListenerOutcomes : AddListener(p, l, out)

\* a client registers a listener or none
AddAnyListenerStep ==
    /\ Idle
    /\ UNCHANGED others
    /\ Len(issued) < MaxEventListeners
    /\ \E p \in RawPaths, l \in Listeners \cup {NoListener}, out \in ListenerOutcomes :
          AddListener(p, l, out)

\* the paths of its own a backend reports events for
BackendPaths == { p \in RawPaths : Len(Names(p)) <= 1 }

\* a backend fires an event at a listener registered with it
OnEventStep ==
    Idle /\ UNCHANGED others /\ \E i \in DOMAIN issued, q \in BackendPaths, e \in Events, derr \in BackendErrors :
                OnEvent(i, q, e, derr)

RemoveListenerStep ==
    Idle /\ UNCHANGED others /\ \E h \in Handles, berr \in BackendErrors : RemoveListener(h, berr)

\* mount tree: Mount, Resolve, Disconnect, Delete
NextTree ==
    \/ MountStep
    \/ ResolveStep
    \/ DisconnectStep
    \/ DeleteStep
    \/ Return

SpecTree == Init /\ [][NextTree]_vars

\* single-path operations
NextOps ==
    \/ MountStep
    \/ ConnectStep
    \/ FireEventStep
    \/ OpenStep
    \/ DeleteStep
    \/ ReadAttrsStep
    \/ ReadForksStep
    \/ WriteAttrsStep
    \/ ReadBucketStep
    \/ InvokeStep
    \/ MkBucketStep
    \/ Return

SpecOps == Init /\ [][NextOps]_vars

\* two-path operations
NextLinks ==
    \/ MountStep
    \/ RenameStep
    \/ SymLinkStep
    \/ HardLinkStep
    \/ RefLinkStep
    \/ Return

SpecLinks == Init /\ [][NextLinks]_vars

\* listeners
\* the mount points the client of the listener operations mounts backends at
TopMounts == { Canonical(<<n>>) : n \in SegNames }

MountTopStep == Idle /\ UNCHANGED others /\ \E m \in TopMounts, fs \in FileSystems : Mount(m, fs)

NextListeners ==
    \/ MountTopStep
    \/ AddListenerStep
    \/ RemoveListenerStep
    \/ Return

SpecListeners == Init /\ [][NextListeners]_vars

\* what is left unchanged by the calls that begin and end transactions
noTx == <<mounting, threads, matchers, joined, cancelable>>

BeginStep ==
    Idle /\ UNCHANGED noTx /\ \E p \in RawPaths, out \in BackendOutcomes : Begin(p, out)

\* the contexts a client passes: one of its own making or the one it holds
CommitStep ==
    Idle /\ UNCHANGED noTx /\ \E ctx \in {Background, held}, berr \in BackendErrors : Commit(ctx, berr)

RollbackStep ==
    Idle /\ UNCHANGED noTx /\ \E ctx \in {Background, held}, berr \in BackendErrors : Rollback(ctx, berr)

ReadDirStep == Idle /\ UNCHANGED others /\ \E p \in RawPaths, out \in BackendOutcomes : ReadDir(p, out)

----------------------------------------------------------------------------
(* AbstractFileSystem: every method hands over to its F-function field     *)

\* the methods that return an error; the field FConnect is named by Connect,
\* and so on
AbstractMethods ==
    { "FireEvent", "Connect", "Disconnect", "AddListener", "RemoveListener", "Begin",
      "Commit", "Rollback", "Open", "Delete", "ReadAttrs", "ReadForks", "WriteAttrs",
      "ReadBucket", "Invoke", "MkBucket", "Rename", "SymLink", "HardLink", "RefLink",
      "Close" }

\* the field a method compares with nil before it calls its own field
CheckedField(method) == IF method = "ReadAttrs" THEN "ReadForks" ELSE method

NewENOSYS(msg) == DefaultError(ENOSYS, msg)

\* a nil *AbstractFileSystem, or an instance with the given fields set
AbstractInstance(isNil, fields) == [isNil |-> isNil, fields |-> fields]

AbstractInstances ==
    { AbstractInstance(TRUE, {}), AbstractInstance(FALSE, {}),
      AbstractInstance(FALSE, AbstractMethods) }
      \cup { AbstractInstance(FALSE, {f}) : f \in AbstractMethods }
      \cup { AbstractInstance(FALSE, AbstractMethods \ {f}) : f \in AbstractMethods }

\* v.method(...); out is what the F-function returns. Calling a field that is
\* nil is a nil dereference
AbstractCall(v, method, out) ==
    /\ last' = IF v.isNil \/ CheckedField(method) \notin v.fields
               THEN [NoCall EXCEPT !.op = "AbstractFileSystem", !.method = method,
                                   !.isNil = v.isNil, !.fields = v.fields,
                                   !.err = NewENOSYS("not supported")]
               ELSE IF method \notin v.fields
               THEN [NoCall EXCEPT !.op = "AbstractFileSystem", !.method = method,
                                   !.isNil = v.isNil, !.fields = v.fields,
                                   !.panicked = TRUE]
               ELSE [NoCall EXCEPT !.op = "AbstractFileSystem", !.method = method,
                                   !.isNil = v.isNil, !.fields = v.fields,
                                   !.val = out.val, !.err = out.err]
    /\ UNCHANGED <<root, lastHandle, handles, issued, removedFirst>>

AbstractCallStep ==
    Idle /\ UNCHANGED others /\ \E v \in AbstractInstances, m \in AbstractMethods, out \in BackendOutcomes :
                AbstractCall(v, m, out)

NextAbstract ==
    \/ AbstractCallStep
    \/ Return

SpecAbstract == Init /\ [][NextAbstract]_vars

----------------------------------------------------------------------------
(* ForEachErr and the functions that look for an error in a chain. A chain *)
(* is the sequence of the kinds of its errors, an error is known by its    *)
(* place in the chain, 0 stands for nil                                    *)

\* the errors with an Unwrap method, and one without
Wrappers == {"UnsupportedAttributesError", "UnsupportedOperationError", "DefaultError"}

Plain == "errorString"

\* an error without Unwrap has no cause
Chains ==
    { c \in UNION { [1..n -> Wrappers \cup {Plain}] : n \in 0..MaxChain } :
        \A i \in 1..(Len(c) - 1) : c[i] \in Wrappers }

\* the functions that run ForEachErr, and the kind each looks for
Walks == {"ForEachErr", "UnwrapUnsupportedAttributesError", "UnwrapUnsupportedOperationError"}

Wanted(walk) ==
    IF walk = "UnwrapUnsupportedAttributesError" THEN "UnsupportedAttributesError"
    ELSE "UnsupportedOperationError"

\* the call of a walk with the chain that starts at root
WalkStart(walk, chain) ==
    /\ last' = [NoCall EXCEPT !.op = walk, !.chain = chain, !.pc = "for", !.count = 0,
                               !.at = IF chain = <<>> THEN 0 ELSE 1]
    /\ UNCHANGED <<root, lastHandle, handles, issued, removedFirst>>

\* one turn of the loop of ForEachErr. The closure of the two Unwrap functions
\* keeps the error and answers true when the error is of the wanted kind and
\* answers false otherwise; the closure of another caller answers either way
WalkTurn(answer) ==
    LET kind == last.chain[last.at]
        found == kind = Wanted(last.op)
        goOn == IF last.op = "ForEachErr" THEN answer ELSE found
        unwrapped == IF last.at < Len(last.chain) THEN last.at + 1 ELSE 0
    IN /\ last.pc = "for"
       /\ last.count < MaxVisits
       /\ last' = IF last.at = 0 THEN [last EXCEPT !.pc = "done"]
                  ELSE [last EXCEPT !.count = @ + 1,
                                    !.tmp = IF last.op # "ForEachErr" /\ found
                                            THEN last.at ELSE @,
                                    !.pc = IF goOn THEN "for" ELSE "done",
                                    !.at = IF goOn /\ kind \in Wrappers
                                           THEN unwrapped ELSE @]
       /\ UNCHANGED <<root, lastHandle, handles, issued, removedFirst>>

\* the walk returns
WalkReturn ==
    /\ last.pc = "done"
    /\ last' = NoCall
    /\ UNCHANGED <<root, lastHandle, handles, issued, removedFirst>>

WalkStartStep ==
    Idle /\ UNCHANGED others /\ \E walk \in Walks, chain \in Chains : WalkStart(walk, chain)

WalkTurnStep == UNCHANGED others /\ \E answer \in BOOLEAN : WalkTurn(answer)

WalkReturnStep == UNCHANGED others /\ WalkReturn

NextErrors ==
    \/ WalkStartStep
    \/ WalkTurnStep
    \/ WalkReturnStep

SpecErrors == Init /\ [][NextErrors]_vars

----------------------------------------------------------------------------
(* Path: the methods called on raw strings *)

\* names of one segment: not blank, no slash, some of them padded
ValidNames == { <<"a">>, <<"n">>, <<"a", "b">>, <<Space, "n">>, <<"n", Space>> }

\* Path(s).Child(name).TrimPrefix(Path(s))
ChildTrimPrefix(s, name) ==
    /\ last' = [NoCall EXCEPT !.op = "ChildTrimPrefix", !.path = s, !.name = name,
                               !.val = TrimPrefix(Child(s, name), s)]
    /\ UNCHANGED <<root, lastHandle, handles, issued, removedFirst>>

\* Path(s).Name()
PathName(s) ==
    /\ last' = [NoCall EXCEPT !.op = "Name", !.path = s, !.val = Name(s).val,
                               !.panicked = Name(s).panicked]
    /\ UNCHANGED <<root, lastHandle, handles, issued, removedFirst>>

ChildTrimPrefixStep ==
    Idle /\ UNCHANGED others /\ \E s \in QueryPaths, name \in ValidNames : ChildTrimPrefix(s, name)

PathNameStep == Idle /\ UNCHANGED others /\ \E s \in QueryPaths : PathName(s)

NextPath ==
    \/ ChildTrimPrefixStep
    \/ PathNameStep
    \/ Return

SpecPath == Init /\ [][NextPath]_vars

----------------------------------------------------------------------------
(* DefaultCancelable: Add and Cancel called from several goroutines *)

\* what is left unchanged by a DefaultCancelable
noCancelable ==
    <<root, lastHandle, handles, last, issued, removedFirst, held, mounting, threads,
      matchers, joined>>

\* goroutine t calls Add(child)
CallAdd(t, child) ==
    /\ cancelable.callers[t].pc = "none"
    /\ cancelable.calls < MaxCalls
    /\ cancelable' = [cancelable EXCEPT !.callers[t] = [pc |-> "lock", op |-> "Add",
                                                         child |-> child, idx |-> 0],
                                         !.calls = @ + 1]

\* goroutine t calls Cancel()
CallCancel(t) ==
    /\ cancelable.callers[t].pc = "none"
    /\ cancelable.calls < MaxCalls
    /\ cancelable' = [cancelable EXCEPT !.callers[t] = [pc |-> "lock", op |-> "Cancel",
                                                         child |-> "none", idx |-> 0],
                                         !.calls = @ + 1]

\* c.mutex.Lock()
Lock(t) ==
    /\ cancelable.callers[t].pc = "lock"
    /\ cancelable.mutex = 0
    /\ cancelable' = [cancelable EXCEPT !.mutex = t, !.callers[t].pc = "body"]

\* the body of Add that appends the child whatever the flag
AddBody_append(t) ==
    /\ cancelable.callers[t].pc = "body"
    /\ cancelable.callers[t].op = "Add"
    /\ LET child == cancelable.callers[t].child
       IN cancelable' = [cancelable EXCEPT !.children = Append(@, child),
                                           !.adds[child] = @ + 1,
                                           !.callers[t].pc = "unlock"]

\* the body of Add: the child is cancelled now when the flag is set, else
\* appended
AddBody(t) ==
    /\ cancelable.callers[t].pc = "body"
    /\ cancelable.callers[t].op = "Add"
    /\ LET child == cancelable.callers[t].child
       IN cancelable' =
            IF cancelable.cancelled # 0
            THEN [cancelable EXCEPT !.invoked[child] = @ + 1,
                                    !.adds[child] = @ + 1,
                                    !.callers[t].pc = "unlock"]
            ELSE [cancelable EXCEPT !.children = Append(@, child),
                                    !.adds[child] = @ + 1,
                                    !.callers[t].pc = "unlock"]

\* the CompareAndSwap of Cancel
CancelSwap(t) ==
    /\ cancelable.callers[t].pc = "body"
    /\ cancelable.callers[t].op = "Cancel"
    /\ cancelable' =
         IF cancelable.cancelled = 0
         THEN [cancelable EXCEPT !.cancelled = 1, !.rounds = @ + 1,
                                 !.callers[t].pc = "range"]
         ELSE [cancelable EXCEPT !.callers[t].pc = "unlock"]

\* one turn of the loop of Cancel over the children, and c.children = nil
\* after the last one
CancelChild(t) ==
    /\ cancelable.callers[t].pc = "range"
    /\ LET idx == cancelable.callers[t].idx
       IN cancelable' =
            IF idx < Len(cancelable.children)
            THEN [cancelable EXCEPT !.invoked[cancelable.children[idx + 1]] = @ + 1,
                                    !.callers[t].idx = idx + 1]
            ELSE [cancelable EXCEPT !.children = <<>>, !.callers[t].pc = "unlock"]

\* the deferred c.mutex.Unlock() and the return
Unlock(t) ==
    /\ cancelable.callers[t].pc = "unlock"
    /\ cancelable' = [cancelable EXCEPT !.mutex = 0, !.callers[t] = NoCaller]

CallAddStep == UNCHANGED noCancelable /\ \E t \in Callers, child \in Children : CallAdd(t, child)

CallCancelStep == UNCHANGED noCancelable /\ \E t \in Callers : CallCancel(t)

LockStep == UNCHANGED noCancelable /\ \E t \in Callers : Lock(t)

AddBodyStep == UNCHANGED noCancelable /\ \E t \in Callers : AddBody(t)

CancelSwapStep == UNCHANGED noCancelable /\ \E t \in Callers : CancelSwap(t)

CancelChildStep == UNCHANGED noCancelable /\ \E t \in Callers : CancelChild(t)

UnlockStep == UNCHANGED noCancelable /\ \E t \in Callers : Unlock(t)

NextCancel ==
    \/ CallAddStep
    \/ CallCancelStep
    \/ LockStep
    \/ AddBodyStep
    \/ CancelSwapStep
    \/ CancelChildStep
    \/ UnlockStep

SpecCancel == Init /\ [][NextCancel]_vars

----------------------------------------------------------------------------
(* joinedResultSet: several result sets read as one *)

\* what is left unchanged by a joined result set
noJoined ==
    <<root, lastHandle, handles, issued, removedFirst, held, mounting, threads, matchers,
      cancelable>>

\* Next of a constituent result set
ResultSetNext(rs) ==
    IF rs.pos < rs.size THEN [rs |-> [rs EXCEPT !.pos = @ + 1], ret |-> TRUE]
    ELSE [rs |-> rs, ret |-> FALSE]

\* joinedResultSet.Next, which calls itself whatever the active result set
\* answered
RECURSIVE joinedNext(_)
joinedNext(r) ==
    IF r.activeIdx >= Len(r.results) THEN [r |-> r, ret |-> FALSE]
    ELSE LET current == ResultSetNext(r.results[r.activeIdx + 1])
             moved == [r EXCEPT !.results[r.activeIdx + 1] = current.rs,
                                !.activeIdx = IF current.ret THEN @ ELSE @ + 1]
         IN joinedNext(moved)

\* joinedResultSet.Size
RECURSIVE joinedSize(_)
joinedSize(results) ==
    IF results = <<>> THEN 0 ELSE Head(results).size + joinedSize(Tail(results))

Bool(b) == IF b THEN "true" ELSE "false"

\* the result sets are joined
NewJoined(sizes) ==
    /\ joined' = joinedResultSet(sizes)
    /\ last' = [NoCall EXCEPT !.op = "NewJoined"]
    /\ UNCHANGED noJoined

JoinedNext ==
    LET n == joinedNext(joined)
    IN /\ joined' = [n.r EXCEPT !.yielded = IF n.ret THEN @ + 1 ELSE @]
       /\ last' = [NoCall EXCEPT !.op = "JoinedNext", !.val = Bool(n.ret)]
       /\ UNCHANGED noJoined

JoinedSize ==
    /\ last' = [NoCall EXCEPT !.op = "JoinedSize", !.count = joinedSize(joined.results)]
    /\ UNCHANGED joined
    /\ UNCHANGED noJoined

\* joinedResultSet.Scan reads the row of the active result set; past the last
\* result set the index is out of range
JoinedScan ==
    /\ last' = IF joined.activeIdx >= Len(joined.results)
               THEN [NoCall EXCEPT !.op = "JoinedScan", !.panicked = TRUE]
               ELSE [NoCall EXCEPT !.op = "JoinedScan",
                                   !.val = <<joined.activeIdx + 1,
                                             joined.results[joined.activeIdx + 1].pos>>]
    /\ UNCHANGED joined
    /\ UNCHANGED noJoined

SizeSeqs == UNION { [1..n -> 0..MaxRows] : n \in 0..MaxResultSets }

JoinStep == Idle /\ \E sizes \in SizeSeqs : NewJoined(sizes)

JoinedNextStep == Idle /\ JoinedNext

JoinedSizeStep == Idle /\ JoinedSize

JoinedScanStep == Idle /\ JoinedScan

NextJoined ==
    \/ JoinStep
    \/ JoinedNextStep
    \/ JoinedSizeStep
    \/ JoinedScanStep
    \/ Return

SpecJoined == Init /\ [][NextJoined]_vars

----------------------------------------------------------------------------
(* Router: patterns matched in the order of their registration *)

\* strings.HasSuffix
HasSuffix(s, suffix) ==
    /\ Len(suffix) <= Len(s)
    /\ SubSeq(s, Len(s) - Len(suffix) + 1, Len(s)) = suffix

\* Path.Normalize: the path in canonical form
Normalize(p) == String(p)

\* the pattern that matches everything
MatchAll == <<"*">>

\* io.EOF and the errors made by fmt.Errorf carry no code
PlainError(message) == DefaultError(-1, message)

EOF == PlainError("EOF")

CannotMatch == PlainError("cannot match path")

matcher(pattern, path, callback) == [pattern |-> pattern, path |-> path, callback |-> callback]

\* matcher.derive
derive(c, path) == matcher(c.pattern, path, c.callback)

\* a segment of the form {name}
IsNamedVar(p) == HasPrefix(p, <<"{">>) /\ HasSuffix(p, <<"}">>)

\* matcher.ValueOf that takes the last segment declaring the name
ValueOf_lastIndex(c, name) ==
    LET varName == <<"{">> \o name \o <<"}">>
        elems == Names(c.pattern)
        found == { i \in 1..Len(elems) : elems[i] = varName }
    IN IF found = {} THEN [val |-> EmptyStr, panicked |-> FALSE]
       ELSE LET idxOfName == CHOOSE i \in found : \A j \in found : j <= i
            IN IF idxOfName > Len(Names(c.path))
               THEN [val |-> EmptyStr, panicked |-> TRUE]
               ELSE [val |-> Names(c.path)[idxOfName], panicked |-> FALSE]

\* matcher.ValueOf: the segment of the path at the first index where the
\* pattern has {name}; NameAt panics when the path has no such index
ValueOf(c, name) ==
    LET varName == <<"{">> \o name \o <<"}">>
        elems == Names(c.pattern)
        found == { i \in 1..Len(elems) : elems[i] = varName }
    IN IF found = {} THEN [val |-> EmptyStr, panicked |-> FALSE]
       ELSE LET idxOfName == CHOOSE i \in found : \A j \in found : i <= j
            IN IF idxOfName > Len(Names(c.path))
               THEN [val |-> EmptyStr, panicked |-> TRUE]
               ELSE [val |-> Names(c.path)[idxOfName], panicked |-> FALSE]

\* matcher.apply
apply(c, path) ==
    IF c.pattern = MatchAll THEN [matcher |-> derive(c, path), err |-> Nil]
    ELSE IF String(Normalize(c.pattern)) = String(Normalize(path))
    THEN [matcher |-> derive(c, path), err |-> Nil]
    ELSE LET patternSegments == Names(c.pattern)
             pathSegments == Names(path)
         IN IF /\ Len(pathSegments) = Len(patternSegments)
               /\ \A i \in 1..Len(patternSegments) :
                     \/ IsNamedVar(patternSegments[i])
                     \/ pathSegments[i] = patternSegments[i]
            THEN [matcher |-> derive(c, path), err |-> Nil]
            ELSE [matcher |-> c, err |-> CannotMatch]

\* the loop of Dispatch that goes on after a matcher that applies
RECURSIVE Applied_all(_, _)
Applied_all(ms, path) ==
    IF ms = <<>> THEN <<>>
    ELSE LET a == apply(Head(ms), path)
         IN IF a.err # Nil THEN Applied_all(Tail(ms), path)
            ELSE <<a.matcher>> \o Applied_all(Tail(ms), path)

\* the loop of Dispatch: the matchers whose callback is invoked
RECURSIVE Applied(_, _)
Applied(ms, path) ==
    IF ms = <<>> THEN <<>>
    ELSE LET a == apply(Head(ms), path)
         IN IF a.err # Nil THEN Applied(Tail(ms), path)
            ELSE <<a.matcher>>

\* one invocation of a callback with its RoutingContext
CallbackCall(ctx, ret) ==
    [fs |-> ctx.callback, method |-> "callback", pattern |-> ctx.pattern, path |-> ctx.path,
     ret |-> ret]

\* what is left unchanged by a Router
noRouter ==
    <<root, lastHandle, handles, issued, removedFirst, held, mounting, threads, joined,
      cancelable>>

\* Router.Handle
Handle(pattern, callback) ==
    /\ matchers' = Append(matchers, matcher(pattern, EmptyStr, callback))
    /\ last' = [NoCall EXCEPT !.op = "Handle", !.path = pattern]
    /\ UNCHANGED noRouter

\* Router.Dispatch; out is what the callback returns
Dispatch(path, out) ==
    LET invoked == Applied(matchers, path)
    IN /\ last' = IF invoked = <<>>
                  THEN [NoCall EXCEPT !.op = "Dispatch", !.path = path, !.err = EOF]
                  ELSE [NoCall EXCEPT !.op = "Dispatch", !.path = path,
                                      !.val = out.val, !.err = out.err,
                                      !.calls = [i \in 1..Len(invoked) |->
                                                    CallbackCall(invoked[i],
                                                                 Answer(out.val, -1, out.err))]]
       /\ UNCHANGED matchers
       /\ UNCHANGED noRouter

\* the segments of the patterns and of the dispatched paths
VarSeg == <<"{", "i", "d", "}">>

Patterns ==
    { Canonical(<<<<"a">>, <<"b">>, <<"c">>>>), Canonical(<<<<"a">>, VarSeg, <<"c">>>>),
      Messy(<<<<"a">>, <<"b">>, <<"c">>>>), Canonical(<<<<"a">>, <<"b">>>>),
      Canonical(<<>>), MatchAll }

DispatchPaths ==
    { Canonical(<<<<"a">>, <<"b">>, <<"c">>>>), Canonical(<<<<"a">>, <<"x">>, <<"c">>>>),
      Messy(<<<<"a">>, <<"b">>, <<"c">>>>), Canonical(<<<<"a">>, <<"b">>>>),
      Canonical(<<>>), Canonical(<<<<"a">>, <<"x">>, <<"c">>, <<"z">>>>) }

\* every Handle registers a callback of its own
HandleStep ==
    /\ Idle
    /\ Len(matchers) < MaxMatchers
    /\ \E pattern \in Patterns : Handle(pattern, Len(matchers) + 1)

DispatchStep == Idle /\ \E p \in DispatchPaths, out \in BackendOutcomes : Dispatch(p, out)

\* the patterns with named segments
OtherSeg == <<"{", "o", "}">>

VarPatterns ==
    { Canonical(<<<<"a">>, VarSeg, <<"c">>, OtherSeg>>), Canonical(<<<<"a">>, VarSeg, <<"c">>>>),
      Messy(<<VarSeg, VarSeg>>), Canonical(<<<<"a">>, <<"b">>>>), MatchAll }

\* the names a callback looks up
LookupNames == { <<"i", "d">>, <<"o">>, <<"x">> }

HandleVarStep ==
    /\ Idle
    /\ Len(matchers) < MaxMatchers
    /\ \E pattern \in VarPatterns : Handle(pattern, Len(matchers) + 1)

\* the callback that Dispatch invoked looks up a name in its RoutingContext
ValueOfStep ==
    /\ last.op = "Dispatch"
    /\ last.calls # <<>>
    /\ \E name \in LookupNames :
          LET ctx == matcher(last.calls[1].pattern, last.calls[1].path, last.calls[1].fs)
              v == ValueOf(ctx, name)
          IN last' = [NoCall EXCEPT !.op = "ValueOf", !.path = ctx.path,
                                    !.newPath = ctx.pattern, !.name = name,
                                    !.val = v.val, !.panicked = v.panicked]
    /\ UNCHANGED matchers
    /\ UNCHANGED noRouter

\* the Router with named segments
NextCapture ==
    \/ HandleVarStep
    \/ DispatchStep
    \/ ValueOfStep
    \/ Return

SpecCapture == Init /\ [][NextCapture]_vars

----------------------------------------------------------------------------
(* The Router whose patterns may end in a wildcard: Match registers,       *)
(* Dispatch takes a context                                                *)

Wildcard == <<"*">>

\* matcher.apply with the trailing wildcard
applyMatch(c, path) ==
    LET patternSegments == Names(c.pattern)
        pathSegments == Names(path)
        matched == [matcher |-> derive(c, path), err |-> Nil]
        failed == [matcher |-> c, err |-> CannotMatch]
        \* the pairwise comparison stops with a match at a wildcard segment
        firstWild == { i \in 1..Len(patternSegments) :
                         /\ patternSegments[i] = Wildcard
                         /\ \A j \in 1..(i - 1) : patternSegments[j] # Wildcard }
        upTo == IF firstWild = {} THEN Len(patternSegments)
                ELSE (CHOOSE i \in firstWild : TRUE) - 1
    IN IF c.pattern = MatchAll THEN matched
       ELSE IF String(Normalize(c.pattern)) = String(Normalize(path)) THEN matched
       ELSE IF Len(pathSegments) # Len(patternSegments)
       THEN IF /\ Len(patternSegments) > 0
               /\ patternSegments[Len(patternSegments)] = Wildcard
               /\ HasPrefix(String(path), String(Parent(c.pattern)))
            THEN matched ELSE failed
       ELSE IF \A i \in 1..upTo : \/ IsNamedVar(patternSegments[i])
                                   \/ pathSegments[i] = patternSegments[i]
       THEN matched ELSE failed

\* the loop of Dispatch over the matchers registered by Match
RECURSIVE AppliedMatch(_, _)
AppliedMatch(ms, path) ==
    IF ms = <<>> THEN <<>>
    ELSE LET a == applyMatch(Head(ms), path)
         IN IF a.err # Nil THEN AppliedMatch(Tail(ms), path)
            ELSE <<a.matcher>>

\* Router.Match
Match(pattern, callback) ==
    /\ matchers' = Append(matchers, matcher(pattern, EmptyStr, callback))
    /\ last' = [NoCall EXCEPT !.op = "Match", !.path = pattern]
    /\ UNCHANGED noRouter

\* Router.Dispatch of this Router; out is what the callback returns
DispatchMatch(path, out) ==
    LET invoked == AppliedMatch(matchers, path)
    IN /\ last' = IF invoked = <<>>
                  THEN [NoCall EXCEPT !.op = "DispatchMatch", !.path = path, !.err = EOF]
                  ELSE [NoCall EXCEPT !.op = "DispatchMatch", !.path = path,
                                      !.val = out.val, !.err = out.err,
                                      !.calls = <<CallbackCall(invoked[1],
                                                               Answer(out.val, -1, out.err))>>]
       /\ UNCHANGED matchers
       /\ UNCHANGED noRouter

WildPatterns ==
    { Canonical(<<<<"a">>, <<"c">>, Wildcard>>), Messy(<<<<"a">>, <<"c">>, Wildcard>>),
      Canonical(<<<<"a">>, VarSeg, Wildcard>>), Canonical(<<Wildcard, <<"c">>>>),
      Canonical(<<<<"a">>, <<"b">>, <<"c">>>>), MatchAll }

WildPaths ==
    { Canonical(<<<<"a">>, <<"c">>>>), Canonical(<<<<"a">>, <<"c">>>>) \o <<Slash>>,
      Canonical(<<<<"a">>, <<"c">>, <<"e">>>>),
      Canonical(<<<<"a">>, <<"c">>, <<"e">>, <<"f">>, <<"g">>>>),
      Canonical(<<<<"a">>, <<"c">>, <<"e">>, <<"f">>, <<"g">>, <<"h">>>>),
      Messy(<<<<"a">>, <<"c">>, <<"e">>, <<"f">>>>),
      Canonical(<<<<"a">>, <<"b">>, <<"c">>>>), Canonical(<<<<"a">>>>),
      Canonical(<<<<"b">>, <<"c">>, <<"e">>>>), Canonical(<<>>) }

MatchStep ==
    /\ Idle
    /\ Len(matchers) < MaxMatchers
    /\ \E pattern \in WildPatterns : Match(pattern, Len(matchers) + 1)

DispatchMatchStep ==
    Idle /\ \E p \in WildPaths, out \in BackendOutcomes : DispatchMatch(p, out)

NextWildcard ==
    \/ MatchStep
    \/ DispatchMatchStep
    \/ Return

SpecWildcard == Init /\ [][NextWildcard]_vars

\* the Router alone
NextRouter ==
    \/ HandleStep
    \/ DispatchStep
    \/ Return

SpecRouter == Init /\ [][NextRouter]_vars

\* listings: Mount, ReadDir
NextList ==
    \/ MountStep
    \/ ReadDirStep
    \/ Return

SpecList == Init /\ [][NextList]_vars

\* what is left unchanged by a Mount on the second goroutine
noMount == <<held, threads, matchers, joined, cancelable>>

MountStartStep ==
    /\ Idle
    /\ UNCHANGED noMount
    /\ \E m \in RawPaths, fs \in FileSystems :
          /\ Names(m) # <<>>
          /\ EntryCount(MountAt(root, Names(m), fs)) <= MaxEntries
          /\ MountStart(m, fs)

MountWalkStep == Idle /\ MountWalk /\ UNCHANGED noMount

MountRemoveStep == Idle /\ MountRemove /\ UNCHANGED noMount

MountAppendStep == Idle /\ MountAppend /\ UNCHANGED noMount

\* one goroutine resolves paths and takes each result before the other one,
\* which mounts, makes its next step
NextMountRace ==
    \/ MountStartStep
    \/ MountWalkStep
    \/ MountRemoveStep
    \/ MountAppendStep
    \/ ResolveStep
    \/ Return

SpecMountRace == Init /\ [][NextMountRace]_vars

\* what is left unchanged by AddListener on the goroutines
noThread == <<held, mounting, matchers, joined, cancelable>>

AddStartStep ==
    /\ Idle
    /\ UNCHANGED noThread
    /\ \E t \in Threads, p \in RawPaths, out \in ListenerOutcomes : AddStart(t, p, out)

WrapReadStep == Idle /\ UNCHANGED noThread /\ \E t \in Threads : WrapRead(t)

WrapWriteStep == Idle /\ UNCHANGED noThread /\ \E t \in Threads : WrapWrite(t)

WrapStoreStep == Idle /\ UNCHANGED noThread /\ \E t \in Threads : WrapStore(t)

WrapReturnStep == Idle /\ UNCHANGED noThread /\ \E t \in Threads : WrapReturn(t)

CollectStep == Idle /\ UNCHANGED noThread /\ \E t \in Threads : Collect(t)

\* backends are mounted, then goroutines call AddListener at the same time
NextAddRace ==
    \/ MountTopStep
    \/ AddStartStep
    \/ WrapReadStep
    \/ WrapWriteStep
    \/ WrapStoreStep
    \/ WrapReturnStep
    \/ CollectStep
    \/ Return

SpecAddRace == Init /\ [][NextAddRace]_vars

\* transactions: Mount, Disconnect, Delete, Begin, Commit, Rollback
NextTx ==
    \/ MountTopStep
    \/ DisconnectStep
    \/ DeleteStep
    \/ BeginStep
    \/ CommitStep
    \/ RollbackStep
    \/ Return

SpecTx == Init /\ [][NextTx]_vars

\* listener events: Mount, AddListener, the backends' events
NextEvents ==
    \/ MountTopStep
    \/ AddAnyListenerStep
    \/ OnEventStep
    \/ Return

SpecEvents == Init /\ [][NextEvents]_vars

Next ==
    \/ MountStep
    \/ ResolveStep
    \/ DisconnectStep
    \/ ConnectStep
    \/ FireEventStep
    \/ OpenStep
    \/ DeleteStep
    \/ ReadAttrsStep
    \/ ReadForksStep
    \/ WriteAttrsStep
    \/ ReadBucketStep
    \/ InvokeStep
    \/ MkBucketStep
    \/ RenameStep
    \/ SymLinkStep
    \/ HardLinkStep
    \/ RefLinkStep
    \/ AddListenerStep
    \/ AddAnyListenerStep
    \/ OnEventStep
    \/ RemoveListenerStep
    \/ BeginStep
    \/ CommitStep
    \/ RollbackStep
    \/ ReadDirStep
    \/ MountStartStep
    \/ MountWalkStep
    \/ MountRemoveStep
    \/ MountAppendStep
    \/ AddStartStep
    \/ WrapReadStep
    \/ WrapWriteStep
    \/ WrapStoreStep
    \/ WrapReturnStep
    \/ CollectStep
    \/ HandleStep
    \/ DispatchStep
    \/ HandleVarStep
    \/ ValueOfStep
    \/ MatchStep
    \/ DispatchMatchStep
    \/ JoinStep
    \/ JoinedNextStep
    \/ JoinedSizeStep
    \/ JoinedScanStep
    \/ CallAddStep
    \/ CallCancelStep
    \/ LockStep
    \/ AddBodyStep
    \/ CancelSwapStep
    \/ CancelChildStep
    \/ UnlockStep
    \/ ChildTrimPrefixStep
    \/ PathNameStep
    \/ AbstractCallStep
    \/ WalkStartStep
    \/ WalkTurnStep
    \/ WalkReturnStep
    \/ Return

Spec == Init /\ [][Next]_vars

----------------------------------------------------------------------------
(* Properties of the mount tree *)

\* the segments of every path handed to Resolve
SegsOf == [p \in QueryPaths |-> Names(p)]

\* the segments a begin the segments b
IsPrefix(a, b) == Len(a) <= Len(b) /\ SubSeq(b, 1, Len(a)) = a

\* the segments b without their first Len(a) segments
Strip(a, b) == SubSeq(b, Len(a) + 1, Len(b))

\* the step applies Mount, Delete or Disconnect to m, to an ancestor of m, or
\* to a path that leads through m
Touches(m) ==
    /\ Idle
    /\ last'.op \in {"Mount", "Disconnect", "Delete"}
    /\ IsPrefix(Names(last'.path), m) \/ IsPrefix(m, Names(last'.path))

\* a Mount(m, X) step with at least one segment in m makes every path under m
\* resolve to (m, rest, X) in canonical form
MountThenResolve ==
    (Idle /\ last'.op = "Mount" /\ ~last'.panicked) =>
        LET m == Names(last'.path)
        IN /\ NodeAt(root', m) = FSData(last'.fs)
           /\ \A p \in QueryPaths :
                 IsPrefix(m, SegsOf[p]) =>
                     ResolveIn(root', p) =
                         ResolveResult(Canonical(m), Canonical(Strip(m, SegsOf[p])),
                                       last'.fs, Nil)

\* a step that does not touch a mount point m holding backend X leaves X at m
\* and every path under m resolving to (m, rest, X)
ResolveStable ==
    root' # root => \A m \in SegSeqs :
        (NodeAt(root, m).kind = "fs" /\ ~Touches(m)) =>
            /\ NodeAt(root', m) = NodeAt(root, m)
            /\ \A p \in QueryPaths :
                  IsPrefix(m, SegsOf[p]) =>
                      ResolveIn(root', p) =
                          ResolveResult(Canonical(m), Canonical(Strip(m, SegsOf[p])),
                                        NodeAt(root, m).fs, Nil)

\* the number of children called as the last of the segments, in the directory
\* the other segments lead to
CountAt(dir, segs) ==
    LET parent == NodeAt(dir, SubSeq(segs, 1, Len(segs) - 1)).children
    IN Cardinality({ i \in 1..Len(parent) : parent[i].name = segs[Len(segs)] })

\* a mounted backend lies on the way along the segments
MountOnTheWay(segs) ==
    \E k \in 1..Len(segs) : NodeAt(root, SubSeq(segs, 1, k)).kind = "fs"

NotFound == ResolveResult(EmptyStr, EmptyStr, NoFS, MountPointNotFound)

\* C1: after Mount(m, X), with m of at least one segment, every path p under m
\* resolves to mount point m and the rest of p, both in canonical form ("/"
\* when p is m), backend X and no error, and it keeps doing so over every later
\* call that is no Mount, Delete or Disconnect on m, on an ancestor of m or
\* through m.
C1_MountResolve == [][MountThenResolve /\ ResolveStable]_vars

\* a path spelled with padding and empty segments was resolved to backend X,
\* mounted MaxDepth segments deep, with a residual path other than "/"
C1_Witness ==
    /\ last.op = "Resolve"
    /\ last.err = Nil
    /\ last.resolved.provider = "X"
    /\ Len(Names(last.resolved.mountPoint)) = MaxDepth
    /\ last.resolved.providerPath # <<Slash>>
    /\ last.path # String(last.path)

\* C2: Resolve(p) fails with the mount-point-not-found error, an empty mount
\* point, an empty residual path and no backend whenever no mounted backend
\* lies on the way along p's segments: a child is missing, or p (the root
\* included) ends on an intermediate node.
C2_ResolveNotFound ==
    (last.op = "Resolve" /\ ~MountOnTheWay(SegsOf[last.path])) =>
        (last.resolved = NotFound /\ last.err = MountPointNotFound)

\* Resolve of a path that ends on an intermediate node failed
C2_Witness ==
    /\ last.op = "Resolve"
    /\ Names(last.path) # <<>>
    /\ NodeAt(root, Names(last.path)).kind = "dir"
    /\ last.err = MountPointNotFound

\* C3: a Mount(m, Y) on a path m that holds an entry (a backend X or a subtree)
\* leaves exactly one entry at m, the backend Y without anything of the former
\* entry, and every path under m resolves to Y.
C3_MountOverwrite ==
    [][(Idle /\ last'.op = "Mount" /\ ~last'.panicked
             /\ NodeAt(root, Names(last'.path)).kind # "missing") =>
          LET m == Names(last'.path)
          IN /\ NodeAt(root', m) = FSData(last'.fs)
             /\ CountAt(root', m) = 1
             /\ \A p \in QueryPaths :
                   IsPrefix(m, SegsOf[p]) => ResolveIn(root', p).provider = last'.fs]_vars

\* a Mount replaced another backend mounted at the same path
C3_Witness ==
    /\ last.op = "Mount"
    /\ last.replaced.kind = "fs"
    /\ last.replaced.fs # last.fs

----------------------------------------------------------------------------
(* Properties of the delegating operations *)

SinglePathOps ==
    {"Open", "Delete", "ReadAttrs", "WriteAttrs", "ReadForks", "ReadBucket", "MkBucket",
     "Invoke", "FireEvent", "Connect"}

TwoPathOps == {"Rename", "SymLink", "HardLink", "RefLink"}

\* the number of segments that lead to the first mounted backend on the way
MountDepth(segs) ==
    CHOOSE k \in 1..Len(segs) :
        /\ NodeAt(root, SubSeq(segs, 1, k)).kind = "fs"
        /\ \A j \in 1..(k - 1) : NodeAt(root, SubSeq(segs, 1, j)).kind # "fs"

C5_CrossMountUnsupported ==
    last.op \in TwoPathOps =>
        LET r0 == ResolveIn(root, last.path)
            r1 == ResolveIn(root, last.newPath)
        IN (r0.err = Nil /\ r1.err = Nil /\ r0.mountPoint # r1.mountPoint) =>
               (last.err.Code = ENOSYS /\ last.calls = <<>>)

\* C6: Delete of a path that resolves to no mount point and leads to no entry
\* of the tree returns no error and leaves the tree as it was.
C6_DeleteAbsent ==
    [][(Idle /\ last'.op = "Delete"
             /\ ~MountOnTheWay(Names(last'.path))
             /\ NodeAt(root, Names(last'.path)).kind = "missing") =>
          (last'.err = Nil /\ root' = root)]_vars

\* C7: Delete of a path that is exactly a mount point returns no error, invokes
\* no backend and removes the entry, so that no path under the mount point
\* resolves afterwards.
C7_DeleteMountPoint ==
    [][(Idle /\ last'.op = "Delete" /\ NodeAt(root, Names(last'.path)).kind = "fs") =>
          /\ last'.err = Nil
          /\ last'.calls = <<>>
          /\ NodeAt(root', Names(last'.path)).kind = "missing"
          /\ \A p \in QueryPaths :
                IsPrefix(Names(last'.path), SegsOf[p]) => ResolveIn(root', p).err # Nil]_vars

\* C8: Disconnect of a path that resolves invokes the backend's Disconnect with
\* the residual path, removes the entry of the mount point whatever the backend
\* answered, and returns the backend's error unchanged; the mount point does
\* not resolve afterwards.
C8_Disconnect ==
    [][(Idle /\ last'.op = "Disconnect" /\ ResolveIn(root, last'.path).err = Nil) =>
          LET r == ResolveIn(root, last'.path)
          IN /\ ~last'.panicked
             /\ Len(last'.calls) = 1
             /\ last'.calls[1].fs = r.provider
             /\ last'.calls[1].method = "Disconnect"
             /\ last'.calls[1].path = r.providerPath
             /\ last'.err = last'.calls[1].ret.err
             /\ ResolveIn(root', r.mountPoint) = NotFound]_vars

----------------------------------------------------------------------------
(* Properties of the listener handles *)

IssuedHandles == { issued[i].handle : i \in DOMAIN issued }

\* C9: the handles returned by successful AddListener calls are strictly
\* increasing, so none is issued twice, also when RemoveListener was called in
\* between, and each one maps to the backend and the backend handle of its
\* own registration.
C9_HandlesIncrease ==
    /\ \A i, j \in DOMAIN issued : i < j => issued[i].handle < issued[j].handle
    /\ \A i \in DOMAIN issued :
          /\ issued[i].handle \in DOMAIN handles
          /\ handles[issued[i].handle] = wrappedHandle(issued[i].backendHandle, issued[i].fs)
    /\ (last.op = "AddListener" /\ last.err = Nil) =>
          /\ issued # <<>>
          /\ last.retHandle = issued[Len(issued)].handle
          /\ last.calls[1].ret.hnd = issued[Len(issued)].backendHandle
          /\ last.calls[1].fs = issued[Len(issued)].fs

\* a second handle was issued after the first one was removed
C9_Witness ==
    /\ last.op = "AddListener"
    /\ last.err = Nil
    /\ Len(issued) = 2
    /\ removedFirst
    /\ issued[1].fs # issued[2].fs

\* C10: RemoveListener with a handle that was never issued returns no error,
\* invokes no backend and changes no state.
C10_RemoveUnknown ==
    [][(Idle /\ last'.op = "RemoveListener" /\ last'.handle \notin IssuedHandles) =>
          /\ last'.err = Nil
          /\ last'.calls = <<>>
          /\ UNCHANGED <<root, lastHandle, handles, issued, removedFirst>>]_vars

\* RemoveListener was called with a handle never issued while listeners are
\* registered
C10_Witness ==
    /\ last.op = "RemoveListener"
    /\ issued # <<>>
    /\ last.handle \notin IssuedHandles
    /\ last.handle > 0

\* the registration a handle was issued for
IssuedAs(handle) == issued[CHOOSE i \in DOMAIN issued : issued[i].handle = handle]

----------------------------------------------------------------------------
(* Properties of the listener events *)

\* C12: a listener registered on a path that resolves to mount point m is
\* handed to the backend with prefix m, and for every event of the backend on
\* its path q the listener is invoked once with m followed by q in canonical
\* form and with the same event; what it returns is returned to the backend.
C12_ListenerPath ==
    [][/\ (Idle /\ last'.op = "AddListener" /\ last'.err = Nil) =>
             LET l == issued'[Len(issued')].listener
                 m == Names(l.prefix)
             IN /\ l.prefix = Canonical(m)
                /\ IsPrefix(m, Names(last'.path))
                /\ NodeAt(root, m).kind = "fs"
       /\ (Idle /\ last'.op = "OnEvent") =>
             \A i \in DOMAIN issued :
                (issued[i].handle = last'.handle
                    /\ issued[i].listener.delegate # NoListener) =>
                   /\ Len(last'.calls) = 1
                   /\ last'.calls[1].fs = issued[i].listener.delegate
                   /\ last'.calls[1].path =
                         Canonical(Names(issued[i].listener.prefix) \o Names(last'.path))
                   /\ last'.calls[1].event = last'.event
                   /\ last'.err = last'.calls[1].ret.err]_vars

\* a registered listener was invoked for an event on a backend path spelled
\* with padding, with a full path of two segments
C12_Witness ==
    /\ last.op = "OnEvent"
    /\ Len(last.calls) = 1
    /\ last.path # String(last.path)
    /\ Len(Names(last.calls[1].path)) = 2
    /\ last.event = "deleted"

----------------------------------------------------------------------------
(* Properties of the transactions *)

\* C13: Commit and Rollback with a context that carries no path stored by
\* Begin return the "wrong context" error and invoke no backend.
C13_WrongContext ==
    (last.op \in {"Commit", "Rollback"} /\ last.ctx.path = NoPath) =>
        (last.err = WrongContext /\ last.calls = <<>>)

\* Rollback was called, with backends mounted, with the context that the
\* failed Begin of a backend returned
C13_Witness ==
    /\ last.op = "Rollback"
    /\ last.ctx.path = NoPath
    /\ last.ctx.tx # NoFS
    /\ root # <<>>

\* C14: Commit and Rollback with the context a successful Begin returned
\* invoke the backend that served that Begin, whatever Mount, Delete and
\* Disconnect calls were made since.
C14_SameBackend ==
    (last.op \in {"Commit", "Rollback"} /\ last.ctx.path # NoPath) =>
        /\ Len(last.calls) = 1
        /\ last.calls[1].method = last.op
        /\ last.calls[1].fs = last.ctx.tx

----------------------------------------------------------------------------
(* Properties of concurrent calls *)

\* C15: a Resolve that runs while a Mount is in progress on another goroutine
\* returns what it returns on the tree as it was before that Mount or on the
\* tree as it is after the whole Mount.
C15_ResolveBeforeOrAfter ==
    [][(Idle /\ last'.op = "Resolve" /\ mounting.pc # "none") =>
          last'.resolved \in
              { ResolveIn(mounting.before, last'.path),
                ResolveIn(MountAt(mounting.before, mounting.names, mounting.provider),
                          last'.path) }]_vars

\* C16: whenever AddListener calls on several goroutines have returned, no two
\* of them returned the same handle, and the handle each one returned is
\* mapped to the backend and the backend handle of that call.
C16_DistinctHandles ==
    /\ \A t \in Threads :
          threads[t].pc = "done" =>
              /\ threads[t].ret \in DOMAIN handles
              /\ handles[threads[t].ret] = wrappedHandle(threads[t].hnd, threads[t].fs)
    /\ \A t, u \in Threads :
          (t # u /\ threads[t].pc = "done" /\ threads[u].pc = "done") =>
              threads[t].ret # threads[u].ret

----------------------------------------------------------------------------
(* Properties of the shape of the mount tree *)

\* no two children of the directory, or of a directory below it, have the
\* same name
RECURSIVE UniqueNames(_)
UniqueNames(dir) ==
    /\ \A i, j \in 1..Len(dir) : dir[i].name = dir[j].name => i = j
    /\ \A i \in 1..Len(dir) : UniqueNames(dir[i].data.children)

\* C17: in every state that Mount, Delete and Disconnect calls lead to, no
\* directory of the mount tree has two children of the same name.
C17_UniqueNames == UniqueNames(root)

\* a backend was mounted in place of a mounted backend, in a directory that
\* has another child
C17_Witness ==
    /\ last.op = "Mount"
    /\ last.replaced.kind = "fs"
    /\ \E at \in SegSeqs : Len(ChildrenAt(root, at)) >= 2

\* C18: listing a path that ends on the root or on a directory of the mount
\* tree returns, without error and without a backend call, one entry for each
\* child of that directory, in the order of the children, with the child's
\* name, the directory mode and size 0.
C18_VirtualListing ==
    (last.op = "ReadDir" /\ NodeAt(root, Names(last.path)).kind = "dir") =>
        LET children == ChildrenAt(root, Names(last.path))
        IN /\ ~last.panicked
           /\ last.err = Nil
           /\ last.calls = <<>>
           /\ Len(last.val) = Len(children)
           /\ \A i \in 1..Len(children) :
                 last.val[i] = [name |-> children[i].name, mode |-> ModeDir, size |-> 0]

\* with one backend mounted two segments deep and nothing else, the directory
\* above it was listed under a padded spelling and gave one entry
C18_Witness ==
    /\ last.op = "ReadDir"
    /\ Len(root) = 1
    /\ root[1].data.kind = "dir"
    /\ Len(root[1].data.children) = 1
    /\ root[1].data.children[1].data.kind = "fs"
    /\ Names(last.path) = <<root[1].name>>
    /\ last.path # String(last.path)
    /\ Len(last.val) = 1

\* C19: a Mount(m2, P1) whose path leads through a mount point m1 of a backend
\* P0 turns m1 into a directory: afterwards every path under m2 resolves to
\* (m2, rest, P1), every other path under m1 resolves to no backend, and when
\* P0 at m1 was the only entry of the tree and P1 is another backend, no path
\* resolves to P0 any more.
C19_MountThroughMount ==
    [][ (Idle /\ last'.op = "Mount" /\ ~last'.panicked) =>
          LET m2 == Names(last'.path)
          IN \A k \in 1..(Len(m2) - 1) :
               LET m1 == SubSeq(m2, 1, k)
                   old == NodeAt(root, m1)
               IN old.kind = "fs" =>
                    /\ NodeAt(root', m1).kind = "dir"
                    /\ \A p \in QueryPaths :
                          LET r == ResolveIn(root', p)
                          IN /\ IsPrefix(m2, SegsOf[p]) =>
                                  r = ResolveResult(Canonical(m2),
                                                    Canonical(Strip(m2, SegsOf[p])),
                                                    last'.fs, Nil)
                             /\ (IsPrefix(m1, SegsOf[p]) /\ ~IsPrefix(m2, SegsOf[p])) =>
                                  r.provider = NoFS
                             /\ (Len(root) = 1 /\ k = 1 /\ old.fs # last'.fs) =>
                                  r.provider # old.fs
      ]_vars

\* a backend was the only entry of the tree and another backend has just been
\* mounted one segment below its mount point
C19_Witness ==
    /\ last.op = "Mount"
    /\ Len(Names(last.path)) = 2
    /\ last.through
    /\ Len(root) = 1
    /\ root[1].name = Names(last.path)[1]
    /\ root[1].data.kind = "dir"
    /\ root[1].data.children = <<namedEntry(Names(last.path)[2], FSData(last.fs))>>

\* the pattern matches the path: it is the match-all pattern, or it has the
\* segments of the path, where a segment {name} stands for any segment
Matches(pattern, path) ==
    \/ pattern = MatchAll
    \/ /\ Len(Names(pattern)) = Len(Names(path))
       /\ \A i \in 1..Len(Names(pattern)) :
             \/ Names(pattern)[i] = Names(path)[i]
             \/ (Head(Names(pattern)[i]) = "{" /\ Names(pattern)[i][Len(Names(pattern)[i])] = "}")

\* C20: Dispatch invokes the callback of the first registered matcher whose
\* pattern matches the path, once, with the dispatched path as context, and no
\* other callback; it invokes none when no pattern matches. With /a/b/c,
\* /a/{id}/c and the match-all pattern registered in this order, /a/b/c goes
\* to the first callback.
C20_FirstMatchOnly ==
    last.op = "Dispatch" =>
        LET hits == { i \in 1..Len(matchers) : Matches(matchers[i].pattern, last.path) }
        IN /\ hits = {} => (last.calls = <<>> /\ last.err = EOF)
           /\ hits # {} =>
                 LET first == CHOOSE i \in hits : \A j \in hits : i <= j
                 IN /\ Len(last.calls) = 1
                    /\ last.calls[1].fs = matchers[first].callback
                    /\ last.calls[1].pattern = matchers[first].pattern
                    /\ last.calls[1].path = last.path
                    /\ last.val = last.calls[1].ret.val
                    /\ last.err = last.calls[1].ret.err
           /\ ( /\ Len(matchers) = 3
                /\ matchers[1].pattern = Canonical(<<<<"a">>, <<"b">>, <<"c">>>>)
                /\ matchers[2].pattern = Canonical(<<<<"a">>, VarSeg, <<"c">>>>)
                /\ matchers[3].pattern = MatchAll
                /\ Names(last.path) = <<<<"a">>, <<"b">>, <<"c">>>> )
               => (Len(last.calls) = 1 /\ last.calls[1].fs = 1)

\* /a/b/c was dispatched to a Router with /a/b/c, /a/{id}/c and the match-all
\* pattern, and the first callback alone ran
C20_Witness ==
    /\ last.op = "Dispatch"
    /\ Len(matchers) = 3
    /\ matchers[1].pattern = Canonical(<<<<"a">>, <<"b">>, <<"c">>>>)
    /\ matchers[2].pattern = Canonical(<<<<"a">>, VarSeg, <<"c">>>>)
    /\ matchers[3].pattern = MatchAll
    /\ last.path = Canonical(<<<<"a">>, <<"b">>, <<"c">>>>)
    /\ Len(last.calls) = 1
    /\ last.calls[1].fs = 1

\* the segments of the pattern that declare the name
Declares(pattern, name) ==
    { i \in 1..Len(Names(pattern)) : Names(pattern)[i] = <<"{">> \o name \o <<"}">> }

\* C21: ValueOf(name) in the context of a matcher that matched path p does
\* not fail and returns the segment of p at the first index where the pattern
\* declares {name}, and the empty string when the pattern does not declare
\* it; /a/{id}/c/{o} matched with /a/x/c/z gives x for id and z for o.
C21_ValueOfFirst ==
    last.op = "ValueOf" =>
        LET at == Declares(last.newPath, last.name)
        IN /\ ~last.panicked
           /\ at = {} => last.val = EmptyStr
           /\ at # {} =>
                 \E i \in at : /\ \A j \in at : i <= j
                               /\ last.val = Names(last.path)[i]
           /\ ( /\ last.newPath = Canonical(<<<<"a">>, VarSeg, <<"c">>, OtherSeg>>)
                /\ last.path = Canonical(<<<<"a">>, <<"x">>, <<"c">>, <<"z">>>>) )
               => /\ last.name = <<"i", "d">> => last.val = <<"x">>
                  /\ last.name = <<"o">> => last.val = <<"z">>

\* /a/{id}/c/{o} matched /a/x/c/z and the callback looked up o
C21_Witness ==
    /\ last.op = "ValueOf"
    /\ last.newPath = Canonical(<<<<"a">>, VarSeg, <<"c">>, OtherSeg>>)
    /\ last.path = Canonical(<<<<"a">>, <<"x">>, <<"c">>, <<"z">>>>)
    /\ last.name = <<"o">>
    /\ last.val = <<"z">>

\* C21 as stated: ValueOf(name) returns the segment of the path at every index
\* where the pattern declares {name}
C21_ValueOfEvery ==
    last.op = "ValueOf" =>
        /\ ~last.panicked
        /\ \A i \in Declares(last.newPath, last.name) : last.val = Names(last.path)[i]

\* the pattern ends in the wildcard and the segments of the path begin with
\* the segments of the pattern before it
UnderWildcard(pattern, path) ==
    LET ps == Names(pattern)
    IN /\ Len(ps) > 0
       /\ ps[Len(ps)] = Wildcard
       /\ IsPrefix(SubSeq(ps, 1, Len(ps) - 1), Names(path))

RECURSIVE RowsRead(_)
RowsRead(results) ==
    IF results = <<>> THEN 0 ELSE Head(results).pos + RowsRead(Tail(results))

\* C23: Next of a joined result set returns true once for every row of its
\* result sets, each time with the next row of the first result set that has
\* rows left ready for Scan, and false only when every row has been yielded;
\* Size is the sum of the sizes.
C23_JoinedIteration ==
    /\ last.op = "JoinedNext" =>
          /\ joined.yielded = RowsRead(joined.results)
          /\ last.val = "false" => joined.yielded = joinedSize(joined.results)
    /\ last.op = "JoinedSize" => last.count = joinedSize(joined.results)

\* no Cancel is going through the children
NoRound == \A t \in Callers : cancelable.callers[t].pc # "range"

\* C24: under every interleaving of Add and Cancel, no child is cancelled
\* before the parent is; once the parent is cancelled and its Cancel is through
\* the children, the Cancel of every child has been invoked once for every
\* Add that took the child; only one Cancel of the parent goes through the
\* children.
C24_CancelPerAdd ==
    /\ \A c \in Children :
          /\ cancelable.cancelled = 0 => cancelable.invoked[c] = 0
          /\ cancelable.invoked[c] <= cancelable.adds[c]
          /\ (cancelable.cancelled # 0 /\ NoRound) =>
                cancelable.invoked[c] = cancelable.adds[c]
    /\ cancelable.rounds <= 1
    /\ (cancelable.cancelled # 0 /\ NoRound) => cancelable.children = <<>>

\* c1 was added before and c2 after the Cancel of the parent, a second Cancel
\* has returned, and each was cancelled once
C24_Witness ==
    /\ cancelable.cancelled # 0
    /\ cancelable.calls = MaxCalls
    /\ \A t \in Callers : cancelable.callers[t].pc = "none"
    /\ cancelable.adds = [c \in Children |-> 1]
    /\ cancelable.invoked = [c \in Children |-> 1]

\* C24 as stated: once the parent is cancelled, every child passed to Add has
\* had its Cancel invoked exactly once
C24_CancelOnce ==
    \A c \in Children :
        (cancelable.cancelled # 0 /\ NoRound /\ cancelable.adds[c] > 0) =>
            cancelable.invoked[c] = 1

\* C25: for every raw string s and every name n of one segment,
\* Path(s).Child(n).TrimPrefix(Path(s)) is, as a path, Path("/" + n): it has
\* the same canonical form and exactly one segment, n without its padding.
C25_ChildTrimPrefix ==
    last.op = "ChildTrimPrefix" =>
        /\ String(last.val) = String(<<Slash>> \o last.name)
        /\ Names(last.val) = <<TrimSpace(last.name)>>

\* the round trip was made from a padded spelling of a path of two segments
C25_Witness ==
    /\ last.op = "ChildTrimPrefix"
    /\ Len(Names(last.path)) = 2
    /\ last.path # String(last.path)
    /\ last.name = <<"n">>
    /\ String(last.val) = <<Slash, "n">>

\* C26: Path.Name returns the last segment of a path that has segments, and
\* the empty string for a path that has none.
C26_NameIsLast ==
    last.op = "Name" =>
        /\ ~last.panicked
        /\ last.val = IF Names(last.path) = <<>> THEN EmptyStr
                      ELSE Names(last.path)[Len(Names(last.path))]

\* C27: every error-returning method of AbstractFileSystem called on a nil
\* receiver, or on an instance whose field for that method is unset, returns
\* an ENOSYS error and does not panic, whatever the other fields are.
C27_UnsetIsENOSYS ==
    (last.op = "AbstractFileSystem" /\ (last.isNil \/ last.method \notin last.fields)) =>
        /\ ~last.panicked
        /\ last.err.Code = ENOSYS

\* the place of the first error of the kind in the chain, 0 when it has none
FirstOf(chain, kind) ==
    IF \E i \in 1..Len(chain) : chain[i] = kind
    THEN CHOOSE i \in 1..Len(chain) :
             chain[i] = kind /\ \A j \in 1..(i - 1) : chain[j] # kind
    ELSE 0

\* C28: UnwrapUnsupportedAttributesError returns the first
\* UnsupportedAttributesError of the chain that starts at root, wherever it
\* is, and nil when there is none; UnwrapUnsupportedOperationError does the
\* same for UnsupportedOperationError.
C28_FirstInChain ==
    (last.op \in Walks \ {"ForEachErr"} /\ last.pc = "done") =>
        last.tmp = FirstOf(last.chain, Wanted(last.op))

\* C30: ForEachErr calls the closure on root and then on each cause in turn,
\* once each, and ends when the closure answers false or the chain ends: it
\* never calls the closure more often than the chain has errors.
C30_OncePerError ==
    last.op = "ForEachErr" => last.count <= Len(last.chain)

\* C29: a Mount(m, X) with no backend mounted at a proper ancestor of m leaves
\* the result of Resolve (mount point, residual path, backend and error) as
\* it was for every path whose segments do not start with the segments of m.
C29_MountFrame ==
    [][ ( /\ Idle
          /\ last'.op = "Mount"
          /\ ~last'.panicked
          /\ ~last'.through )
        => LET m == Names(last'.path)
           IN \A q \in QueryPaths :
                ~IsPrefix(m, SegsOf[q]) => ResolveIn(root', q) = ResolveIn(root, q)
      ]_vars

\* a backend was mounted next to another one in the same directory, which
\* is still there
C29_Witness ==
    /\ last.op = "Mount"
    /\ ~last.through
    /\ Len(Names(last.path)) = 2
    /\ Len(root) = 1
    /\ root[1].data.kind = "dir"
    /\ Len(root[1].data.children) = 2
    /\ root[1].data.children[1].data.kind = "fs"
    /\ root[1].data.children[2] = namedEntry(Names(last.path)[2], FSData(last.fs))

====
